---- MODULE Spec2Model ----
(***************************************************************************)
(* A model of the gate interpreter: the Data values, the BinaryOp          *)
(* operators, the scope chain of a Program and the tree-walking evaluator  *)
(* Expression::eval, unfolded into a machine with an explicit stack of     *)
(* the calls of eval that are in progress.                                 *)
(***************************************************************************)
EXTENDS Integers, Sequences, FiniteSets, TLC

(***************************************************************************)
(* Bounds of the model.                                                    *)
(***************************************************************************)
\* number of top-level calls of Program::eval in one run
MaxCalls == 2

\* the literal N of the loop `while x < N { x = x + 1 }` the driver may run
LoopLimit == 3

(***************************************************************************)
(* f64 payloads.  A number is a pair <<n, d>>: the rational n/d in lowest  *)
(* terms when d > 0, and NaN, +inf, -inf when d = 0.  Every finite number  *)
(* the model reaches is a small dyadic rational, on which IEEE-754         *)
(* arithmetic is exact; the sign of zero is not kept.                      *)
(***************************************************************************)
NaN == <<0, 0>>
PosInf == <<1, 0>>
NegInf == <<-1, 0>>

Abs(i) == IF i < 0 THEN -i ELSE i

Sign(i) == IF i < 0 THEN -1 ELSE IF i = 0 THEN 0 ELSE 1

RECURSIVE Gcd(_, _)
Gcd(a, b) == IF b = 0 THEN a ELSE Gcd(b, a % b)

\* the rational n/d (d # 0) in lowest terms with a positive denominator
Norm(n, d) ==
    LET s == IF d < 0 THEN -1 ELSE 1
        g == Gcd(Abs(n), Abs(d))
    IN  <<(s * n) \div g, (s * d) \div g>>

Num(k) == <<k, 1>>
Half == <<1, 2>>

IsNaN(a) == a = NaN
IsInf(a) == a[2] = 0 /\ a[1] # 0
IsZero(a) == a[2] # 0 /\ a[1] = 0

f64_add(a, b) ==
    IF IsNaN(a) \/ IsNaN(b) THEN NaN
    ELSE IF IsInf(a) THEN (IF IsInf(b) /\ b # a THEN NaN ELSE a)
    ELSE IF IsInf(b) THEN b
    ELSE Norm(a[1] * b[2] + b[1] * a[2], a[2] * b[2])

f64_neg(a) == <<-a[1], a[2]>>

f64_sub(a, b) == f64_add(a, f64_neg(b))

f64_mul(a, b) ==
    IF IsNaN(a) \/ IsNaN(b) THEN NaN
    ELSE IF IsInf(a) \/ IsInf(b)
         THEN (IF IsZero(a) \/ IsZero(b) THEN NaN
               ELSE <<Sign(a[1]) * Sign(b[1]), 0>>)
    ELSE Norm(a[1] * b[1], a[2] * b[2])

f64_div(a, b) ==
    IF IsNaN(a) \/ IsNaN(b) THEN NaN
    ELSE IF IsInf(a)
         THEN (IF IsInf(b) THEN NaN
               ELSE <<Sign(a[1]) * (IF b[1] < 0 THEN -1 ELSE 1), 0>>)
    ELSE IF IsInf(b) THEN Num(0)
    ELSE IF IsZero(b) THEN (IF IsZero(a) THEN NaN ELSE <<Sign(a[1]), 0>>)
    ELSE Norm(a[1] * b[2], a[2] * b[1])

\* the remainder of a truncated division, with the sign of the dividend
f64_rem(a, b) ==
    IF IsNaN(a) \/ IsNaN(b) \/ IsInf(a) \/ IsZero(b) THEN NaN
    ELSE IF IsInf(b) THEN a
    ELSE LET p == Abs(a[1] * b[2])
             q == Abs(a[2] * b[1])
             t == Sign(a[1]) * Sign(b[1]) * (p \div q)
         IN  f64_sub(a, f64_mul(b, Num(t)))

\* l <= r written for l < r
f64_lt_or_eq(a, b) ==
    /\ ~IsNaN(a)
    /\ ~IsNaN(b)
    /\ IF a[2] = 0 /\ b[2] = 0 THEN a[1] <= b[1]
       ELSE a[1] * b[2] <= b[1] * a[2]

\* the IEEE comparisons: every comparison with NaN is false
f64_eq(a, b) == ~IsNaN(a) /\ ~IsNaN(b) /\ a = b

f64_lt(a, b) ==
    /\ ~IsNaN(a)
    /\ ~IsNaN(b)
    /\ IF a[2] = 0 /\ b[2] = 0 THEN a[1] < b[1]
       ELSE a[1] * b[2] < b[1] * a[2]

f64_le(a, b) == f64_lt(a, b) \/ f64_eq(a, b)

(***************************************************************************)
(* Data (data.rs).                                                         *)
(***************************************************************************)
Nil == [t |-> "Nil"]
Boolean(b) == [t |-> "Boolean", b |-> b]
Number(n) == [t |-> "Number", n |-> n]
Str(s) == [t |-> "Str", s |-> s]

\* an equality that compares the variants only
Data_eq_variant(l, r) == l.t = r.t

\* the derived PartialEq of Data
Data_eq(l, r) ==
    /\ l.t = r.t
    /\ CASE l.t = "Nil" -> TRUE
         [] l.t = "Boolean" -> l.b = r.b
         [] l.t = "Number" -> f64_eq(l.n, r.n)
         [] l.t = "Str" -> l.s = r.s

to_bool(d) == ~(d = Nil \/ d = Boolean(FALSE))

type_name(d) ==
    CASE d.t = "Nil" -> "nil"
      [] d.t = "Boolean" -> "boolean"
      [] d.t = "Number" -> "number"
      [] d.t = "Str" -> "string"

(***************************************************************************)
(* Results and ExecuteError (expr.rs, error.rs).                           *)
(***************************************************************************)
Ok(v) == [ok |-> TRUE, v |-> v]
Err(e) == [ok |-> FALSE, e |-> e]

UndefinedVar(name) == [kind |-> "UndefinedVar", name |-> name]
UndefinedFunc(name) == [kind |-> "UndefinedFunc", name |-> name]
InvalidOperation(l, o, r) ==
    [kind |-> "InvalidOperation", left |-> l, op |-> o, right |-> r]

(***************************************************************************)
(* BinaryOp (binary_op.rs).                                                *)
(***************************************************************************)
BinaryOps == {"Add", "Sub", "Mul", "Div", "Mod", "Eq", "Lt", "LtEq", "Gt", "GtEq"}

\* BinaryOp::eval with the catch-all arm `_ => Ok(Nil)`
BinaryOp_eval_nil(op, left, right) ==
    LET nums == left.t = "Number" /\ right.t = "Number"
        l == left.n
        r == right.n
    IN  CASE op = "Add" /\ nums -> Ok(Number(f64_add(l, r)))
          [] op = "Sub" /\ nums -> Ok(Number(f64_sub(l, r)))
          [] op = "Mul" /\ nums -> Ok(Number(f64_mul(l, r)))
          [] op = "Div" /\ nums -> Ok(Number(f64_div(l, r)))
          [] op = "Mod" /\ nums -> Ok(Number(f64_rem(l, r)))
          [] op = "Eq" -> Ok(Boolean(Data_eq(left, right)))
          [] op = "Lt" /\ nums -> Ok(Boolean(f64_lt(l, r)))
          [] op = "LtEq" /\ nums -> Ok(Boolean(f64_le(l, r)))
          [] op = "Gt" /\ nums -> Ok(Boolean(f64_lt(r, l)))
          [] op = "GtEq" /\ nums -> Ok(Boolean(f64_le(r, l)))
          [] OTHER -> Ok(Nil)

BinaryOp_eval(op, left, right) ==
    LET nums == left.t = "Number" /\ right.t = "Number"
        l == left.n
        r == right.n
    IN  CASE op = "Add" /\ nums -> Ok(Number(f64_add(l, r)))
          [] op = "Sub" /\ nums -> Ok(Number(f64_sub(l, r)))
          [] op = "Mul" /\ nums -> Ok(Number(f64_mul(l, r)))
          [] op = "Div" /\ nums -> Ok(Number(f64_div(l, r)))
          [] op = "Mod" /\ nums -> Ok(Number(f64_rem(l, r)))
          [] op = "Eq" -> Ok(Boolean(Data_eq(left, right)))
          [] op = "Lt" /\ nums -> Ok(Boolean(f64_lt(l, r)))
          [] op = "LtEq" /\ nums -> Ok(Boolean(f64_le(l, r)))
          [] op = "Gt" /\ nums -> Ok(Boolean(f64_lt(r, l)))
          [] op = "GtEq" /\ nums -> Ok(Boolean(f64_le(r, l)))
          [] OTHER -> Err(InvalidOperation(type_name(left), op, type_name(right)))

precendence(op) ==
    CASE op \in {"Add", "Sub"} -> 3
      [] op \in {"Mul", "Div"} -> 4
      [] op = "Mod" -> 2
      [] op = "Eq" -> 0
      [] op \in {"Lt", "LtEq", "Gt", "GtEq"} -> 1

(***************************************************************************)
(* The scope chain (scope.rs) and the Program around it (program.rs).      *)
(* A Scope is the function of its HashMap: its domain holds the bound      *)
(* names.  frames[1] is the global frame, the last frame the innermost.    *)
(***************************************************************************)
None == [some |-> FALSE]
Some(v) == [some |-> TRUE, v |-> v]

Scope_new == [n \in {} |-> Nil]

ScopeTree_new == <<Scope_new>>

\* the frames that bind name
Binders(fr, name) == {i \in 1..Len(fr) : name \in DOMAIN fr[i]}

Max(S) == CHOOSE i \in S : \A j \in S : j <= i

\* HashMap::insert
Scope_insert(scope, name, val) ==
    [n \in DOMAIN scope \cup {name} |-> IF n = name THEN val ELSE scope[n]]

\* ScopeTree::var: the first match from the last frame towards the first
var(fr, name) ==
    IF Binders(fr, name) = {} THEN None
    ELSE Some(fr[Max(Binders(fr, name))][name])

\* ScopeTree::set_var panics when no frame binds name and last_mut() is None
set_var_panics(fr, name) == Binders(fr, name) = {} /\ fr = <<>>

\* set_var inserting an unbound name into the first frame instead of the last
set_var_global(fr, name, val) ==
    IF Binders(fr, name) # {}
    THEN [fr EXCEPT ![Max(Binders(fr, name))] = Scope_insert(@, name, val)]
    ELSE IF fr = <<>> THEN fr
    ELSE [fr EXCEPT ![1] = Scope_insert(@, name, val)]

\* set_var without the search: always an insert into the last frame
set_var_innermost(fr, name, val) ==
    IF fr = <<>> THEN fr
    ELSE [fr EXCEPT ![Len(fr)] = Scope_insert(@, name, val)]

\* ScopeTree::set_var, where it does not panic
set_var(fr, name, val) ==
    IF Binders(fr, name) # {}
    THEN [fr EXCEPT ![Max(Binders(fr, name))] = Scope_insert(@, name, val)]
    ELSE IF fr = <<>> THEN fr
    ELSE [fr EXCEPT ![Len(fr)] = Scope_insert(@, name, val)]

\* new_scope that pushes nothing
new_scope_none(fr) == fr

new_scope(fr) == Append(fr, Scope_new)

\* Vec::pop on an empty vector does nothing
pop_scope(fr) == IF fr = <<>> THEN fr ELSE SubSeq(fr, 1, Len(fr) - 1)

(***************************************************************************)
(* Expression (expr.rs).                                                   *)
(***************************************************************************)
NilLiteral == [kind |-> "NilLiteral"]
BooleanLiteral(b) == [kind |-> "BooleanLiteral", b |-> b]
NumberLiteral(n) == [kind |-> "NumberLiteral", n |-> n]
StrLiteral(s) == [kind |-> "StrLiteral", s |-> s]
Variable(name) == [kind |-> "Variable", name |-> name]
ParenExpr(e) == [kind |-> "ParenExpr", expr |-> e]
Block(exprs) == [kind |-> "Block", exprs |-> exprs]
Assignment(left, right) == [kind |-> "Assignment", left |-> left, right |-> right]
FunctionCall(name, args) == [kind |-> "FunctionCall", name |-> name, args |-> args]
BinaryExpr(left, op, right) ==
    [kind |-> "BinaryExpr", left |-> left, op |-> op, right |-> right]
IfExpr(cond, body, else_branch) ==
    [kind |-> "IfExpr", cond |-> cond, body |-> body, else_branch |-> else_branch]
WhileLoop(cond, body) == [kind |-> "WhileLoop", cond |-> cond, body |-> body]

LiteralKinds == {"NilLiteral", "BooleanLiteral", "NumberLiteral", "StrLiteral"}

\* the value of a literal expression
LiteralData(e) ==
    CASE e.kind = "NilLiteral" -> Nil
      [] e.kind = "BooleanLiteral" -> Boolean(e.b)
      [] e.kind = "NumberLiteral" -> Number(e.n)
      [] e.kind = "StrLiteral" -> Str(e.s)

(***************************************************************************)
(* The programs the driver evaluates.                                      *)
(***************************************************************************)
One == NumberLiteral(Num(1))
Two == NumberLiteral(Num(2))

XPlusOne == BinaryExpr(Variable("x"), "Add", One)

\* `while x < N { x = x + 1 }` of test_while_loop
CountLoop ==
    WhileLoop(BinaryExpr(Variable("x"), "Lt", NumberLiteral(Num(LoopLimit))),
              Assignment("x", XPlusOne))

\* `while true w`: the body fails with UndefinedVar("w") every time
ErrLoop == WhileLoop(BooleanLiteral(TRUE), Variable("w"))

\* `{ x = 1  x }` of test_block_scope
ScopeBlock == Block(<<Assignment("x", One), Variable("x")>>)

\* `{ w  x = 2 }`: the first inner expression fails
ErrBlock == Block(<<Variable("w"), Assignment("x", Two)>>)

\* `{ y = 1  { x = 2  y = 2 } }`
NestedBlock ==
    Block(<<Assignment("y", One),
            Block(<<Assignment("x", Two), Assignment("y", Two)>>)>>)

\* `{ x = 1  w }`: the last inner expression fails
ErrLastBlock == Block(<<Assignment("x", One), Variable("w")>>)

\* the conditions of the conditionals: one of each kind of value, and an error
CondExprs ==
    {NilLiteral, BooleanLiteral(FALSE), BooleanLiteral(TRUE),
     NumberLiteral(Num(0)), StrLiteral("s"), Variable("w")}

\* `if c y = 1 else z = 2` and `if c y = 1`: a branch that is evaluated
\* leaves its binding in the frame of the conditional
IfExprs ==
    {IfExpr(c, Assignment("y", One), eb) :
        c \in CondExprs, eb \in {None, Some(Assignment("z", Two))}}

\* `if x = x + 1 1 else 2`: the condition has an effect
IfCounting == IfExpr(Assignment("x", XPlusOne), One, Some(Two))

\* `if nil { 1 } else { 2 }`
IfNil == IfExpr(NilLiteral, Block(<<One>>), Some(Block(<<Two>>)))

\* the starting values of the counter x
XInits ==
    {Assignment("x", NumberLiteral(n)) :
        n \in {Half, Num(1), Num(LoopLimit), Num(LoopLimit + 1)}}

\* `w + (y = 1)`: the left operand fails, the right one has an effect
BinLeftErr == BinaryExpr(Variable("w"), "Add", Assignment("y", One))

\* `w + foo()`: both operands fail, with different errors
BinBothErr == BinaryExpr(Variable("w"), "Add", FunctionCall("foo", <<>>))

\* `(y = 1) + y`: the right operand reads what the left one wrote
BinOrder == BinaryExpr(Assignment("y", One), "Add", Variable("y"))

\* `(y = 1) + w`: the right operand fails after the left one succeeded
BinRightErr == BinaryExpr(Assignment("y", One), "Add", Variable("w"))

\* `x = w` of test_variables: the right-hand side fails
AssignErr == Assignment("x", Variable("w"))

\* `x = y = z`
AssignChain == Assignment("x", Assignment("y", Variable("z")))

\* `println(y = 1, w, z = 2)`: the second argument fails
PrintErr ==
    FunctionCall("println",
                 <<Assignment("y", One), Variable("w"), Assignment("z", Two)>>)

\* `println(y = 1, y)`: the second argument reads what the first one wrote
PrintOrder == FunctionCall("println", <<Assignment("y", One), Variable("y")>>)

\* `foo(x = 1)`
UndefinedCall == FunctionCall("foo", <<Assignment("x", One)>>)

TopExprs ==
    XInits \cup IfExprs \cup
    {Variable("x"), ParenExpr(Variable("x")), Block(<<>>),
     ScopeBlock, ErrBlock, ErrLastBlock, NestedBlock, CountLoop, ErrLoop,
     IfCounting, IfNil,
     FunctionCall("println", <<StrLiteral("s"), Variable("x")>>),
     FunctionCall("println", <<>>),
     UndefinedCall, BinLeftErr, BinBothErr, BinOrder, BinRightErr,
     AssignErr, AssignChain, PrintErr, PrintOrder}

Names == {"x", "y", "z", "w"}

(***************************************************************************)
(* fmt::Display for Data (data.rs) and the println built-in (expr.rs).     *)
(***************************************************************************)
Digit(i) == CASE i = 0 -> "0" [] i = 1 -> "1" [] i = 2 -> "2" [] i = 3 -> "3"
              [] i = 4 -> "4" [] i = 5 -> "5" [] i = 6 -> "6" [] i = 7 -> "7"
              [] i = 8 -> "8" [] i = 9 -> "9"

RECURSIVE NatStr(_)
NatStr(n) == IF n < 10 THEN Digit(n) ELSE NatStr(n \div 10) \o Digit(n % 10)

\* the decimal digits of r/d (r < d), at most 17 of them
RECURSIVE FracStr(_, _, _)
FracStr(r, d, fuel) ==
    IF r = 0 \/ fuel = 0 THEN ""
    ELSE Digit((r * 10) \div d) \o FracStr((r * 10) % d, d, fuel - 1)

f64_display(a) ==
    IF IsNaN(a) THEN "NaN"
    ELSE IF IsInf(a) THEN (IF a[1] < 0 THEN "-inf" ELSE "inf")
    ELSE (IF a[1] < 0 THEN "-" ELSE "")
         \o NatStr(Abs(a[1]) \div a[2])
         \o (IF Abs(a[1]) % a[2] = 0 THEN ""
             ELSE "." \o FracStr(Abs(a[1]) % a[2], a[2], 17))

Display(d) ==
    CASE d.t = "Nil" -> "nil"
      [] d.t = "Boolean" -> (IF d.b THEN "true" ELSE "false")
      [] d.t = "Number" -> f64_display(d.n)
      [] d.t = "Str" -> d.s

\* what println(v) writes: every item, then one newline
RECURSIVE println_text(_)
println_text(v) ==
    IF v = <<>> THEN "\n" ELSE Display(Head(v)) \o println_text(Tail(v))

(***************************************************************************)
(* The evaluator Expression::eval as a machine.  pc = "eval": eval is       *)
(* entered on the expression cur; pc = "ret": a call of eval has returned   *)
(* the result cur to the call on top of kont.  kont holds, innermost last,  *)
(* the calls of eval in progress with their local variables; depth is the   *)
(* number of frames the call was entered with.  hist records every          *)
(* finished call of Program::eval: the expression, the scope chain and the  *)
(* output before it, its result, and the scope chain and output after it.   *)
(***************************************************************************)
VARIABLES frames, out, pc, cur, kont, hist

vars == <<frames, out, pc, cur, kont, hist>>

NoCur == [kind |-> "none"]

Top == kont[Len(kont)]
Pop == SubSeq(kont, 1, Len(kont) - 1)
Push(entry) == Append(kont, entry)
ReplaceTop(entry) == [kont EXCEPT ![Len(kont)] = entry]

Returning(kind) == pc = "ret" /\ kont # <<>> /\ Top.kind = kind

\* Program::new
Init ==
    /\ frames = ScopeTree_new
    /\ out = ""
    /\ pc = "idle"
    /\ cur = NoCur
    /\ kont = <<>>
    /\ hist = <<>>

\* Program::eval is called on e
Program_eval(e) ==
    /\ pc = "idle"
    /\ Len(hist) < MaxCalls
    /\ pc' = "eval"
    /\ cur' = e
    /\ kont' = <<[kind |-> "Program_eval", e |-> e, pre |-> frames,
                  pre_out |-> out, depth |-> Len(frames)]>>
    /\ UNCHANGED <<frames, out, hist>>

\* Program::eval returns
Program_ret ==
    /\ Returning("Program_eval")
    /\ hist' = Append(hist, [e |-> Top.e, pre |-> Top.pre, pre_out |-> Top.pre_out,
                             res |-> cur, post |-> frames, post_out |-> out])
    /\ pc' = "idle"
    /\ cur' = NoCur
    /\ kont' = Pop
    /\ UNCHANGED <<frames, out>>

\* the four literal arms
EvalLiteral ==
    /\ pc = "eval"
    /\ cur.kind \in LiteralKinds
    /\ pc' = "ret"
    /\ cur' = Ok(LiteralData(cur))
    /\ UNCHANGED <<frames, out, kont, hist>>

\* the Variable arm
EvalVariable ==
    /\ pc = "eval"
    /\ cur.kind = "Variable"
    /\ pc' = "ret"
    /\ cur' = IF var(frames, cur.name).some THEN Ok(var(frames, cur.name).v)
              ELSE Err(UndefinedVar(cur.name))
    /\ UNCHANGED <<frames, out, kont, hist>>

\* the ParenExpr arm: expr.eval(p)
EvalParenExpr ==
    /\ pc = "eval"
    /\ cur.kind = "ParenExpr"
    /\ kont' = Push([kind |-> "ParenExpr", depth |-> Len(frames)])
    /\ cur' = cur.expr
    /\ UNCHANGED <<frames, out, pc, hist>>

ParenExprRet ==
    /\ Returning("ParenExpr")
    /\ kont' = Pop
    /\ UNCHANGED <<frames, out, pc, cur, hist>>

\* the Block arm up to the first inner expression: new_scope, and for an
\* empty block the pop_scope and the return as well
EvalBlock ==
    /\ pc = "eval"
    /\ cur.kind = "Block"
    /\ IF cur.exprs = <<>>
       THEN /\ frames' = pop_scope(new_scope(frames))
            /\ pc' = "ret"
            /\ cur' = Ok(Nil)
            /\ kont' = kont
       ELSE /\ frames' = new_scope(frames)
            /\ pc' = "eval"
            /\ cur' = cur.exprs[1]
            /\ kont' = Push([kind |-> "Block", exprs |-> cur.exprs, i |-> 1,
                             last_result |-> Ok(Nil), depth |-> Len(frames)])
    /\ UNCHANGED <<out, hist>>

\* BlockRet with try! around expr.eval(p): an error returns before pop_scope
BlockRet_try ==
    /\ Returning("Block")
    /\ IF ~cur.ok
       THEN /\ kont' = Pop
            /\ UNCHANGED <<frames, pc, cur>>
       ELSE IF Top.i < Len(Top.exprs)
       THEN /\ kont' = ReplaceTop([Top EXCEPT !.i = @ + 1, !.last_result = cur])
            /\ pc' = "eval"
            /\ cur' = Top.exprs[Top.i + 1]
            /\ frames' = frames
       ELSE /\ frames' = pop_scope(frames)
            /\ kont' = Pop
            /\ pc' = "ret"
            /\ cur' = cur
    /\ UNCHANGED <<out, hist>>

\* an inner expression of a Block has returned: last_result = expr.eval(p),
\* then the next inner expression, or pop_scope and the return of last_result
BlockRet ==
    /\ Returning("Block")
    /\ IF Top.i < Len(Top.exprs)
       THEN /\ kont' = ReplaceTop([Top EXCEPT !.i = @ + 1, !.last_result = cur])
            /\ pc' = "eval"
            /\ cur' = Top.exprs[Top.i + 1]
            /\ frames' = frames
       ELSE /\ frames' = pop_scope(frames)
            /\ kont' = Pop
            /\ pc' = "ret"
            /\ cur' = cur
    /\ UNCHANGED <<out, hist>>

\* the Assignment arm: right.eval(p)
EvalAssignment ==
    /\ pc = "eval"
    /\ cur.kind = "Assignment"
    /\ kont' = Push([kind |-> "Assignment", left |-> cur.left, depth |-> Len(frames)])
    /\ cur' = cur.right
    /\ UNCHANGED <<frames, out, pc, hist>>

\* AssignmentRet that binds the name to Nil when the right-hand side failed
AssignmentRet_writes_nil ==
    /\ Returning("Assignment")
    /\ IF ~cur.ok
       THEN /\ frames' = set_var(frames, Top.left, Nil)
            /\ kont' = Pop
            /\ UNCHANGED <<pc, cur>>
       ELSE /\ frames' = set_var(frames, Top.left, cur.v)
            /\ kont' = Pop
            /\ UNCHANGED <<pc, cur>>
    /\ UNCHANGED <<out, hist>>

\* AssignmentRet that returns Ok(Nil) after the write
AssignmentRet_returns_nil ==
    /\ Returning("Assignment")
    /\ IF ~cur.ok
       THEN /\ kont' = Pop
            /\ UNCHANGED <<frames, pc, cur>>
       ELSE /\ frames' = set_var(frames, Top.left, cur.v)
            /\ kont' = Pop
            /\ pc' = "ret"
            /\ cur' = Ok(Nil)
    /\ UNCHANGED <<out, hist>>

\* the right-hand side has returned: try!, then set_var and Ok(res)
AssignmentRet ==
    /\ Returning("Assignment")
    /\ IF ~cur.ok
       THEN /\ kont' = Pop
            /\ UNCHANGED <<frames, pc, cur>>
       ELSE IF set_var_panics(frames, Top.left)
       THEN /\ pc' = "panic"
            /\ UNCHANGED <<frames, cur, kont>>
       ELSE /\ frames' = set_var(frames, Top.left, cur.v)
            /\ kont' = Pop
            /\ UNCHANGED <<pc, cur>>
    /\ UNCHANGED <<out, hist>>

\* EvalFunctionCall without the lookup of the name: every name is println
EvalFunctionCall_any_name ==
    /\ pc = "eval"
    /\ cur.kind = "FunctionCall"
    /\ IF cur.args = <<>>
       THEN /\ out' = out \o println_text(<<>>)
            /\ pc' = "ret"
            /\ cur' = Ok(Nil)
            /\ kont' = kont
       ELSE /\ kont' = Push([kind |-> "FunctionCall", args |-> cur.args, i |-> 1,
                             new_args |-> <<>>, depth |-> Len(frames)])
            /\ pc' = "eval"
            /\ cur' = cur.args[1]
            /\ out' = out
    /\ UNCHANGED <<frames, hist>>

\* the FunctionCall arm up to the first argument
EvalFunctionCall ==
    /\ pc = "eval"
    /\ cur.kind = "FunctionCall"
    /\ IF cur.name # "println"
       THEN /\ pc' = "ret"
            /\ cur' = Err(UndefinedFunc(cur.name))
            /\ UNCHANGED <<kont, out>>
       ELSE IF cur.args = <<>>
       THEN /\ out' = out \o println_text(<<>>)
            /\ pc' = "ret"
            /\ cur' = Ok(Nil)
            /\ kont' = kont
       ELSE /\ kont' = Push([kind |-> "FunctionCall", args |-> cur.args, i |-> 1,
                             new_args |-> <<>>, depth |-> Len(frames)])
            /\ pc' = "eval"
            /\ cur' = cur.args[1]
            /\ out' = out
    /\ UNCHANGED <<frames, hist>>

\* FunctionCallRet that writes each argument as soon as it is evaluated
FunctionCallRet_eager ==
    /\ Returning("FunctionCall")
    /\ IF ~cur.ok
       THEN /\ kont' = Pop
            /\ UNCHANGED <<pc, cur, out>>
       ELSE IF Top.i < Len(Top.args)
       THEN /\ kont' = ReplaceTop([Top EXCEPT !.i = @ + 1,
                                              !.new_args = Append(@, cur.v)])
            /\ pc' = "eval"
            /\ cur' = Top.args[Top.i + 1]
            /\ out' = out \o Display(cur.v)
       ELSE /\ out' = out \o Display(cur.v) \o "\n"
            /\ kont' = Pop
            /\ pc' = "ret"
            /\ cur' = Ok(Nil)
    /\ UNCHANGED <<frames, hist>>

\* an argument has returned: try! and push, then the next argument or f(&new_args)
FunctionCallRet ==
    /\ Returning("FunctionCall")
    /\ IF ~cur.ok
       THEN /\ kont' = Pop
            /\ UNCHANGED <<pc, cur, out>>
       ELSE IF Top.i < Len(Top.args)
       THEN /\ kont' = ReplaceTop([Top EXCEPT !.i = @ + 1,
                                              !.new_args = Append(@, cur.v)])
            /\ pc' = "eval"
            /\ cur' = Top.args[Top.i + 1]
            /\ out' = out
       ELSE /\ out' = out \o println_text(Append(Top.new_args, cur.v))
            /\ kont' = Pop
            /\ pc' = "ret"
            /\ cur' = Ok(Nil)
    /\ UNCHANGED <<frames, hist>>

\* the BinaryExpr arm: left.eval(p)
EvalBinaryExpr ==
    /\ pc = "eval"
    /\ cur.kind = "BinaryExpr"
    /\ kont' = Push([kind |-> "BinaryExpr", op |-> cur.op, right |-> cur.right,
                     phase |-> "left", left_data |-> Nil, depth |-> Len(frames)])
    /\ cur' = cur.left
    /\ UNCHANGED <<frames, out, pc, hist>>

\* BinaryExprRet without try! on the left operand: the right operand is
\* evaluated before the error of the left one is returned
BinaryExprRet_eager ==
    /\ Returning("BinaryExpr")
    /\ IF Top.phase = "left"
       THEN /\ kont' = ReplaceTop([Top EXCEPT !.phase = "right", !.left_data = cur])
            /\ pc' = "eval"
            /\ cur' = Top.right
       ELSE /\ kont' = Pop
            /\ pc' = "ret"
            /\ cur' = IF ~Top.left_data.ok THEN Top.left_data
                      ELSE IF ~cur.ok THEN cur
                      ELSE BinaryOp_eval(Top.op, Top.left_data.v, cur.v)
    /\ UNCHANGED <<frames, out, hist>>

\* an operand has returned: try!, then right.eval(p) or op.eval
BinaryExprRet ==
    /\ Returning("BinaryExpr")
    /\ IF ~cur.ok
       THEN /\ kont' = Pop
            /\ UNCHANGED <<pc, cur>>
       ELSE IF Top.phase = "left"
       THEN /\ kont' = ReplaceTop([Top EXCEPT !.phase = "right", !.left_data = cur.v])
            /\ pc' = "eval"
            /\ cur' = Top.right
       ELSE /\ kont' = Pop
            /\ pc' = "ret"
            /\ cur' = BinaryOp_eval(Top.op, Top.left_data, cur.v)
    /\ UNCHANGED <<frames, out, hist>>

\* the test of IfExpr as cond == Boolean(true)
if_taken_true_only(d) == Data_eq(d, Boolean(TRUE))

\* the test of IfExpr through Data::to_bool
if_taken_to_bool(d) == to_bool(d)

\* the test of IfExpr: cond != Boolean(false)
if_taken(d) == ~Data_eq(d, Boolean(FALSE))

\* the IfExpr arm: cond.eval(p)
EvalIfExpr ==
    /\ pc = "eval"
    /\ cur.kind = "IfExpr"
    /\ kont' = Push([kind |-> "IfExpr", body |-> cur.body,
                     else_branch |-> cur.else_branch, phase |-> "cond",
                     depth |-> Len(frames)])
    /\ cur' = cur.cond
    /\ UNCHANGED <<frames, out, pc, hist>>

\* the condition or the chosen branch has returned
IfExprRet ==
    /\ Returning("IfExpr")
    /\ IF Top.phase # "cond" \/ ~cur.ok
       THEN /\ kont' = Pop
            /\ UNCHANGED <<pc, cur>>
       ELSE IF if_taken(cur.v)
       THEN /\ kont' = ReplaceTop([Top EXCEPT !.phase = "body"])
            /\ pc' = "eval"
            /\ cur' = Top.body
       ELSE IF Top.else_branch.some
       THEN /\ kont' = ReplaceTop([Top EXCEPT !.phase = "else"])
            /\ pc' = "eval"
            /\ cur' = Top.else_branch.v
       ELSE /\ kont' = Pop
            /\ pc' = "ret"
            /\ cur' = Ok(Nil)
    /\ UNCHANGED <<frames, out, hist>>

\* the test of WhileLoop: the pattern Boolean(false)
while_breaks(d) == d = Boolean(FALSE)

\* the WhileLoop arm: the first cond.eval(p)
EvalWhileLoop ==
    /\ pc = "eval"
    /\ cur.kind = "WhileLoop"
    /\ kont' = Push([kind |-> "WhileLoop", cond |-> cur.cond, body |-> cur.body,
                     phase |-> "cond", last_data |-> Ok(Nil), depth |-> Len(frames)])
    /\ cur' = cur.cond
    /\ UNCHANGED <<frames, out, pc, hist>>

\* the condition has returned (try!, break or body.eval(p)), or the body has
\* returned (last_data = body.eval(p), and the condition again)
WhileLoopRet ==
    /\ Returning("WhileLoop")
    /\ IF Top.phase = "body"
       THEN /\ kont' = ReplaceTop([Top EXCEPT !.phase = "cond", !.last_data = cur])
            /\ pc' = "eval"
            /\ cur' = Top.cond
       ELSE IF ~cur.ok
       THEN /\ kont' = Pop
            /\ UNCHANGED <<pc, cur>>
       ELSE IF while_breaks(cur.v)
       THEN /\ kont' = Pop
            /\ pc' = "ret"
            /\ cur' = Top.last_data
       ELSE /\ kont' = ReplaceTop([Top EXCEPT !.phase = "body"])
            /\ pc' = "eval"
            /\ cur' = Top.body
    /\ UNCHANGED <<frames, out, hist>>

Step ==
    \/ EvalLiteral
    \/ EvalVariable
    \/ EvalParenExpr
    \/ ParenExprRet
    \/ EvalBlock
    \/ BlockRet
    \/ EvalAssignment
    \/ AssignmentRet
    \/ EvalFunctionCall
    \/ FunctionCallRet
    \/ EvalBinaryExpr
    \/ BinaryExprRet
    \/ EvalIfExpr
    \/ IfExprRet
    \/ EvalWhileLoop
    \/ WhileLoopRet
    \/ Program_ret

Next == (\E e \in TopExprs : Program_eval(e)) \/ Step

Spec == Init /\ [][Next]_vars

\* the evaluator is ordinary sequential code: a call in progress goes on
FairSpec == Spec /\ WF_vars(Step)

(***************************************************************************)
(* BinaryOp::eval on its own: pc = "apply" with the operator and the       *)
(* operands in cur, then pc = "applied" with the result added.             *)
(***************************************************************************)
OpValues ==
    {Nil, Boolean(TRUE), Boolean(FALSE), Str(""), Str("s"),
     Number(Num(0)), Number(Num(1)), Number(Half), Number(Num(-2)),
     Number(NaN), Number(PosInf)}

OpInit ==
    /\ pc = "apply"
    /\ cur \in [op : BinaryOps, left : OpValues, right : OpValues]
    /\ frames = ScopeTree_new
    /\ out = ""
    /\ kont = <<>>
    /\ hist = <<>>

OpApply ==
    /\ pc = "apply"
    /\ pc' = "applied"
    /\ cur' = [op |-> cur.op, left |-> cur.left, right |-> cur.right,
               res |-> BinaryOp_eval(cur.op, cur.left, cur.right)]
    /\ UNCHANGED <<frames, out, kont, hist>>

OpNext == OpApply

OpSpec == OpInit /\ [][OpNext]_vars

(***************************************************************************)
(* The calls of Program::eval that have returned.                          *)
(***************************************************************************)
Calls == {hist[i] : i \in 1..Len(hist)}

Bound(fr, name) == var(fr, name).some

\* C1: a Block whose inner expression i returns an error evaluates no inner
\* expression after i, returns that error and pops its frame: no Block in
\* progress holds an error in last_result and goes on, and `{ w  x = 2 }`
\* returns UndefinedVar("w") without the assignment to x.
C1_BlockAbortsOnError ==
    /\ \A j \in 1..Len(kont) : kont[j].kind = "Block" => kont[j].last_result.ok
    /\ \A h \in Calls :
          h.e = ErrBlock =>
             /\ h.res = Err(UndefinedVar("w"))
             /\ h.post = h.pre

\* C2: when the body of a WhileLoop returns an error the loop returns that
\* error at once: no WhileLoop in progress holds an error in last_data and
\* evaluates its condition again.
C2_WhileAbortsOnBodyError ==
    \A j \in 1..Len(kont) : kont[j].kind = "WhileLoop" => kont[j].last_data.ok

\* C3: a name that no frame binds when a Block is entered is bound inside the
\* block (`{ x = 1  x }` returns 1) and unbound when the block has returned;
\* Variable(name) then yields UndefinedVar(name), and a top-level assignment
\* to the name binds it in the global frame.
C3_BlockScope ==
    \A i \in 1..Len(hist) :
       LET h == hist[i] IN
       /\ h.e.kind = "Block" =>
             \A n \in Names : ~Bound(h.pre, n) => ~Bound(h.post, n)
       /\ (h.e = ScopeBlock /\ ~Bound(h.pre, "x")) => h.res = Ok(Number(Num(1)))
       /\ (h.e.kind = "Variable" /\ ~Bound(h.pre, h.e.name)) =>
             h.res = Err(UndefinedVar(h.e.name))
       /\ (h.e.kind = "Assignment" /\ h.res.ok) =>
             /\ Len(h.post) = 1
             /\ h.e.left \in DOMAIN h.post[1]
             /\ h.post[1][h.e.left] = h.res.v

\* the block of test_block_scope has run with x unbound, and Variable("x")
\* after it has failed
C3_Witness ==
    /\ Len(hist) = 2
    /\ hist[1].e = ScopeBlock
    /\ hist[1].res = Ok(Number(Num(1)))
    /\ hist[2].e = Variable("x")
    /\ hist[2].res = Err(UndefinedVar("x"))

\* frame i of fr2 is frame i of fr1 with name bound to v and nothing else changed
OnlyBinds(fr1, fr2, i, name, v) ==
    /\ Len(fr2) = Len(fr1)
    /\ \A j \in 1..Len(fr1) : j # i => fr2[j] = fr1[j]
    /\ DOMAIN fr2[i] = DOMAIN fr1[i] \cup {name}
    /\ fr2[i][name] = v
    /\ \A m \in DOMAIN fr1[i] \ {name} : fr2[i][m] = fr1[i][m]

\* C4: the set_var of an assignment overwrites the binding in the innermost
\* frame that binds the name, or inserts into the last frame when none does,
\* and changes nothing else; so `{ y = 1  { x = 2  y = 2 } }` run with x
\* bound outside leaves x bound to 2.
C4_SetVar ==
    /\ [][(Returning("Assignment") /\ cur.ok) =>
            LET B == Binders(frames, Top.left) IN
            IF B = {}
            THEN OnlyBinds(frames, frames', Len(frames), Top.left, cur.v)
            ELSE \E i \in B :
                    /\ \A j \in B : j <= i
                    /\ OnlyBinds(frames, frames', i, Top.left, cur.v)]_vars
    /\ [](\A h \in Calls :
            (h.e = NestedBlock /\ Bound(h.pre, "x")) =>
               /\ Len(h.post) = 1
               /\ var(h.post, "x") = Some(Number(Num(2))))

\* the nested block has run with x bound to another value in the global frame
C4_Witness ==
    \E h \in Calls :
       /\ h.e = NestedBlock
       /\ var(h.pre, "x") = Some(Number(Num(1)))
       /\ var(h.post, "x") = Some(Number(Num(2)))

\* C5: when a call of eval returns, Ok or Err, the scope chain has as many
\* frames as when the call was entered.
C5_FramesBalanced ==
    [][(pc' \in {"ret", "idle"}) =>
          IF Len(kont') < Len(kont) THEN Len(frames') = Top.depth
          ELSE Len(frames') = Len(frames)]_vars

\* a Block has returned an error
C5_Witness ==
    \E h \in Calls :
       /\ h.e = ErrLastBlock
       /\ ~h.res.ok
       /\ Len(h.post) = Len(h.pre)

Min(a, b) == IF a < b THEN a ELSE b

\* C6: the scope chain always holds at least one frame and set_var never
\* panics; a step adds or removes at most one frame, at the tail, and a
\* frame that is added is empty.
C6_GlobalFrameStays ==
    /\ [](Len(frames) >= 1 /\ pc # "panic")
    /\ [][LET n == Len(frames)
              m == Len(frames')
          IN  /\ m \in {n - 1, n, n + 1}
              /\ m # n => SubSeq(frames', 1, Min(n, m)) = SubSeq(frames, 1, Min(n, m))
              /\ m = n + 1 => frames'[m] = Scope_new]_vars

\* set_var is about to run two blocks deep
C6_Witness == Len(frames) = 3 /\ Returning("Assignment") /\ cur.ok

\* C7: IfExpr evaluates its condition once; for every condition value but
\* Boolean(false) it evaluates and returns the body and not the else-branch;
\* for Boolean(false) it evaluates and returns the else-branch when there is
\* one and returns Nil otherwise, and not the body.
C7_IfExpr ==
    \A h \in Calls :
       /\ (h.e \in IfExprs /\ h.e.cond.kind \in LiteralKinds) =>
             IF LiteralData(h.e.cond) # Boolean(FALSE)
             THEN /\ h.res = Ok(Number(Num(1)))
                  /\ OnlyBinds(h.pre, h.post, 1, "y", Number(Num(1)))
             ELSE IF h.e.else_branch.some
             THEN /\ h.res = Ok(Number(Num(2)))
                  /\ OnlyBinds(h.pre, h.post, 1, "z", Number(Num(2)))
             ELSE /\ h.res = Ok(Nil)
                  /\ h.post = h.pre
       /\ (h.e = IfCounting /\ Bound(h.pre, "x")) =>
             /\ h.res = Ok(Number(Num(1)))
             /\ OnlyBinds(h.pre, h.post, 1, "x",
                          Number(f64_add(var(h.pre, "x").v.n, Num(1))))

\* `if 0 y = 1 else z = 2` has returned 1 on a program that binds no z
C7_Witness ==
    \E h \in Calls :
       /\ h.e = IfExpr(NumberLiteral(Num(0)), Assignment("y", One),
                       Some(Assignment("z", Two)))
       /\ h.res = Ok(Number(Num(1)))
       /\ ~Bound(h.post, "z")

\* C8 as stated: `if nil { 1 } else { 2 }` yields Number(2).
C8_IfNilYieldsTwo ==
    \A h \in Calls : h.e = IfNil => h.res = Ok(Number(Num(2)))

\* C8, amended: `if nil { 1 } else { 2 }` yields Number(1): a Nil condition
\* is not Boolean(false) and selects the body.
C8_IfNilYieldsOne ==
    \A h \in Calls : h.e = IfNil => h.res = Ok(Number(Num(1)))

\* `if nil { 1 } else { 2 }` has returned
C8_Witness == \E h \in Calls : h.e = IfNil /\ h.res.ok

\* the calls of the counting loop that started with x bound to a finite number
CountLoopCalls ==
    {h \in Calls : /\ h.e = CountLoop
                   /\ Bound(h.pre, "x")
                   /\ var(h.pre, "x").v.t = "Number"
                   /\ var(h.pre, "x").v.n[2] > 0}

\* what C9 says of a call that started with x bound to the number n0
CountLoopResult(h, n0) ==
    IF n0[1] < LoopLimit * n0[2]
    THEN /\ h.res = Ok(Number(Num(LoopLimit)))
         /\ OnlyBinds(h.pre, h.post, 1, "x", Number(Num(LoopLimit)))
    ELSE /\ h.res = Ok(Nil)
         /\ h.post = h.pre

\* C9 as stated: started with x bound to n0, `while x < N { x = x + 1 }`
\* returns Number(N) and leaves x bound to N if n0 < N, and returns Nil and
\* leaves x alone otherwise.
C9_CountLoopAnyStart ==
    \A h \in CountLoopCalls : CountLoopResult(h, var(h.pre, "x").v.n)

\* the counting loop is entered with x bound to a number
CountLoopEntered ==
    /\ pc = "eval"
    /\ cur = CountLoop
    /\ Bound(frames, "x")
    /\ var(frames, "x").v.t = "Number"

\* C9, amended: started with x bound to an integer n0, the loop terminates;
\* it returns Number(N) and leaves x bound to N if n0 < N, and returns Nil
\* and leaves x alone otherwise.
C9_CountLoopIntegerStart ==
    /\ [](\A h \in CountLoopCalls :
            var(h.pre, "x").v.n[2] = 1 => CountLoopResult(h, var(h.pre, "x").v.n))
    /\ (CountLoopEntered ~> pc = "idle")

\* the loop has counted from 1 to N
C9_Witness ==
    \E h \in CountLoopCalls :
       /\ var(h.pre, "x") = Some(Number(Num(1)))
       /\ h.res = Ok(Number(Num(LoopLimit)))

ArithOrRelOps == BinaryOps \ {"Eq"}

C11_EqStructural ==
    (pc = "applied" /\ cur.op = "Eq") =>
       cur.res = Ok(Boolean(cur.left = cur.right))

\* C11, amended: Eq never returns an error, and returns Boolean(true) exactly
\* when both values have the same variant and the same payload and are not
\* Number(NaN); a NaN is unequal to every value, itself included.
C11_EqExceptNaN ==
    (pc = "applied" /\ cur.op = "Eq") =>
       cur.res = Ok(Boolean(cur.left = cur.right /\ cur.left # Number(NaN)))

\* Eq has been applied to Nil and Boolean(false)
C11_Witness ==
    /\ pc = "applied"
    /\ cur.op = "Eq"
    /\ cur.left = Nil
    /\ cur.right = Boolean(FALSE)
    /\ cur.res = Ok(Boolean(FALSE))

\* C12: BinaryExpr evaluates its left operand before its right operand; when
\* the left operand fails the right one is not evaluated and the error of the
\* left one is the result, also when the right one would fail too; the
\* operator is applied only when both succeeded.
C12_BinaryExprOrder ==
    \A h \in Calls :
       /\ h.e = BinLeftErr =>
             /\ h.res = Err(UndefinedVar("w"))
             /\ h.post = h.pre
       /\ h.e = BinBothErr => h.res = Err(UndefinedVar("w"))
       /\ h.e = BinOrder =>
             /\ h.res = Ok(Number(Num(2)))
             /\ OnlyBinds(h.pre, h.post, 1, "y", Number(Num(1)))
       /\ h.e = BinRightErr =>
             /\ h.res = Err(UndefinedVar("w"))
             /\ OnlyBinds(h.pre, h.post, 1, "y", Number(Num(1)))

\* `w + (y = 1)` has failed on a program that binds no y
C12_Witness ==
    \E h \in Calls :
       /\ h.e = BinLeftErr
       /\ ~h.res.ok
       /\ ~Bound(h.post, "y")

\* C13: an Assignment whose right-hand side fails returns that error and
\* writes nothing: the scope chain is the one the right-hand side left.
C13_AssignmentErrorWritesNothing ==
    /\ [][(Returning("Assignment") /\ ~cur.ok) =>
            (frames' = frames /\ cur' = cur /\ pc' = "ret")]_vars
    /\ [](\A h \in Calls :
            h.e = AssignErr =>
               /\ h.res = Err(UndefinedVar("w"))
               /\ h.post = h.pre)

\* `x = w` has failed on a program that binds x
C13_Witness ==
    \E h \in Calls :
       /\ h.e = AssignErr
       /\ Bound(h.pre, "x")
       /\ ~h.res.ok
       /\ h.post = h.pre

\* C14: a successful Assignment returns the value its right-hand side
\* returned, and a lookup of its name then yields that value; `x = y = z`
\* with z bound to v binds y and x to v and returns v.
C14_AssignmentValue ==
    /\ [][(Returning("Assignment") /\ cur.ok) =>
            /\ pc' = "ret"
            /\ cur' = cur
            /\ var(frames', Top.left) = Some(cur.v)]_vars
    /\ [](\A h \in Calls :
            (h.e = AssignChain /\ Bound(h.pre, "z")) =>
               /\ h.res = Ok(var(h.pre, "z").v)
               /\ var(h.post, "x") = var(h.pre, "z")
               /\ var(h.post, "y") = var(h.pre, "z")
               /\ var(h.post, "z") = var(h.pre, "z"))

\* `x = y = z` has run with z bound to 2
C14_Witness ==
    \E h \in Calls :
       /\ h.e = AssignChain
       /\ h.res = Ok(Number(Num(2)))
       /\ var(h.post, "x") = Some(Number(Num(2)))
       /\ var(h.post, "y") = Some(Number(Num(2)))

C16_UndefinedFunc ==
    \A h \in Calls :
       (h.e.kind = "FunctionCall" /\ h.e.name # "println") =>
          /\ h.res = Err(UndefinedFunc(h.e.name))
          /\ h.post = h.pre
          /\ h.post_out = h.pre_out

\* `foo(x = 1)` has failed on a program that binds no x
C16_Witness ==
    \E h \in Calls :
       /\ h.e = UndefinedCall
       /\ h.res = Err(UndefinedFunc("foo"))
       /\ ~Bound(h.post, "x")

\* ---- the parser (parser.rs) over the token stream of the scanner ----

\* longest operator chain and longest token string the parser is given
MaxOps == 3
MaxToks == 4

\* the tokens of scanner.rs; Tok(name) is a token without a payload
Tok(name) == [t |-> name]
TokBoolean(b) == [t |-> "Boolean", b |-> b]
TokIdentifier(s) == [t |-> "Identifier", s |-> s]
TokNumber(n) == [t |-> "Number", n |-> n]
TokString(s) == [t |-> "String", s |-> s]

UnexpectedChar(c) == [kind |-> "UnexpectedChar", c |-> c]

\* Token::to_binary_op
to_binary_op(tok) ==
    CASE tok.t = "DoubleEq" -> Some("Eq")
      [] tok.t = "Lt" -> Some("Lt")
      [] tok.t = "LtEq" -> Some("LtEq")
      [] tok.t = "Gt" -> Some("Gt")
      [] tok.t = "GtEq" -> Some("GtEq")
      [] tok.t = "Plus" -> Some("Add")
      [] tok.t = "Minus" -> Some("Sub")
      [] tok.t = "Times" -> Some("Mul")
      [] tok.t = "Divide" -> Some("Div")
      [] OTHER -> None

\* TokenError
IncompleteString == [kind |-> "IncompleteString"]
InvalidEscape == [kind |-> "InvalidEscape"]

\* ---- the scanner (scanner.rs) over the characters of the input ----

\* The input of a Scanner is the sequence of the characters it has yet to
\* read, each a string of one character; peek() is its head.  A read function
\* returns what it read and the input it leaves as rest.

is_space(c) == c \in {" ", "\t", "\n", "\r"}

is_alpha(c) ==
    c \in {"_", "a", "b", "c", "d", "e", "f", "g", "h", "i", "j", "k", "l", "m",
           "n", "o", "p", "q", "r", "s", "t", "u", "v", "w", "x", "y", "z",
           "A", "B", "C", "D", "E", "F", "G", "H", "I", "J", "K", "L", "M",
           "N", "O", "P", "Q", "R", "S", "T", "U", "V", "W", "X", "Y", "Z"}

is_digit(c) == c \in {"0", "1", "2", "3", "4", "5", "6", "7", "8", "9"}

\* the value of a digit character
digit_value(c) == CHOOSE i \in 0..9 : Digit(i) = c

RECURSIVE Pow10(_)
Pow10(k) == IF k = 0 THEN 1 ELSE 10 * Pow10(k - 1)

\* the loop of read_word: the longest run of letters and digits
RECURSIVE read_word_loop(_, _)
read_word_loop(input, word) ==
    IF input = <<>> \/ (~is_digit(Head(input)) /\ ~is_alpha(Head(input)))
    THEN [word |-> word, rest |-> input]
    ELSE read_word_loop(Tail(input), word \o Head(input))

read_word(input) ==
    LET r == read_word_loop(input, "")
    IN  [tok |-> CASE r.word = "nil" -> Tok("Nil")
                   [] r.word = "if" -> Tok("If")
                   [] r.word = "else" -> Tok("Else")
                   [] r.word = "while" -> Tok("While")
                   [] r.word = "true" -> TokBoolean(TRUE)
                   [] r.word = "false" -> TokBoolean(FALSE)
                   [] OTHER -> TokIdentifier(r.word),
         rest |-> r.rest]

\* a digit loop of read_number: the value and the count of the digits read
RECURSIVE read_digits(_, _, _)
read_digits(input, val, len) ==
    IF input = <<>> \/ ~is_digit(Head(input))
    THEN [val |-> val, len |-> len, rest |-> input]
    ELSE read_digits(Tail(input), 10 * val + digit_value(Head(input)), len + 1)

\* read_number: digits, then `.` and digits if a `.` follows; the parse of
\* the text is its decimal value
read_number(input) ==
    LET ip == read_digits(input, 0, 0)
        fp == read_digits(Tail(ip.rest), 0, 0)
    IN  IF ip.rest # <<>> /\ Head(ip.rest) = "."
        THEN [n |-> Norm(ip.val * Pow10(fp.len) + fp.val, Pow10(fp.len)),
              rest |-> fp.rest]
        ELSE [n |-> Num(ip.val), rest |-> ip.rest]

\* the loop of read_string, after the opening quote
RECURSIVE read_string_loop(_, _)
read_string_loop(input, buf) ==
    IF input = <<>> THEN [res |-> Err(IncompleteString), rest |-> input]
    ELSE LET c == Head(input)
             rest == Tail(input)
         IN  IF c = "\"" THEN [res |-> Ok(TokString(buf)), rest |-> rest]
             ELSE IF c = "\\"
             THEN IF rest # <<>> /\ Head(rest) \in {"\"", "\\"}
                  THEN read_string_loop(Tail(rest), buf \o Head(rest))
                  ELSE [res |-> Err(InvalidEscape), rest |-> rest]
             ELSE read_string_loop(rest, buf \o c)

read_string(input) == read_string_loop(Tail(input), "")

\* the loop at the head of Scanner::next
RECURSIVE skip_space(_)
skip_space(input) ==
    IF input # <<>> /\ is_space(Head(input)) THEN skip_space(Tail(input))
    ELSE input

\* one_or_two that never looks at the character that follows
one_or_two_single(rest, single, double) ==
    [item |-> Some(Ok(Tok(single))), rest |-> rest]

\* the arms of `=`, `<` and `>`: the token `double` when a `=` follows
one_or_two(rest, single, double) ==
    IF rest # <<>> /\ Head(rest) = "="
    THEN [item |-> Some(Ok(Tok(double))), rest |-> Tail(rest)]
    ELSE [item |-> Some(Ok(Tok(single))), rest |-> rest]

\* sign_or_number that never looks at the character that follows
sign_or_number_bare(rest, single, sgn) ==
    [item |-> Some(Ok(Tok(single))), rest |-> rest]

\* the arms of `+` and `-`: a number of sign sgn when a digit follows
sign_or_number(rest, single, sgn) ==
    IF rest # <<>> /\ is_digit(Head(rest))
    THEN [item |-> Some(Ok(TokNumber(f64_mul(read_number(rest).n, Num(sgn))))),
          rest |-> read_number(rest).rest]
    ELSE [item |-> Some(Ok(Tok(single))), rest |-> rest]

\* the last arm without self.input.next(): the character is left in the input
unexpected_char_stuck(s) ==
    [item |-> Some(Err(UnexpectedChar(Head(s)))), rest |-> s]

\* the last arm of Scanner::next: the character is consumed and reported
unexpected_char(s) ==
    [item |-> Some(Err(UnexpectedChar(Head(s)))), rest |-> Tail(s)]

\* Scanner::next
Scanner_next(input) ==
    LET s == skip_space(input)
        c == Head(s)
        rest == Tail(s)
        one(name) == [item |-> Some(Ok(Tok(name))), rest |-> rest]
    IN  IF s = <<>> THEN [item |-> None, rest |-> s]
        ELSE CASE c = "(" -> one("OpenParen")
               [] c = ")" -> one("CloseParen")
               [] c = "{" -> one("OpenCurly")
               [] c = "}" -> one("CloseCurly")
               [] c = "," -> one("Comma")
               [] c = "=" -> one_or_two(rest, "Eq", "DoubleEq")
               [] c = "<" -> one_or_two(rest, "Lt", "LtEq")
               [] c = ">" -> one_or_two(rest, "Gt", "GtEq")
               [] c = "+" -> sign_or_number(rest, "Plus", 1)
               [] c = "-" -> sign_or_number(rest, "Minus", -1)
               [] c = "*" -> one("Times")
               [] c = "/" -> one("Divide")
               [] c = "\"" -> [item |-> Some(read_string(s).res),
                               rest |-> read_string(s).rest]
               [] is_alpha(c) -> [item |-> Some(Ok(read_word(s).tok)),
                                  rest |-> read_word(s).rest]
               [] is_digit(c) -> [item |-> Some(Ok(TokNumber(read_number(s).n))),
                                  rest |-> read_number(s).rest]
               [] OTHER -> unexpected_char(s)

\* everything a Scanner on input yields before None
RECURSIVE ScanAll(_)
ScanAll(input) ==
    LET r == Scanner_next(input)
    IN  IF r.item.some THEN <<r.item.v>> \o ScanAll(r.rest) ELSE <<>>

\* ParseError
ScanError(e) == [kind |-> "ScanError", e |-> e]
Unexpected(t) == [kind |-> "Unexpected", t |-> t]
UnexpectedEOF == [kind |-> "UnexpectedEOF"]

\* The scanner of a Parser is the sequence of the items it has yet to yield,
\* each Ok(token) or Err(token error); peek() is its head.  A parse function
\* returns its Result as res and the scanner it leaves as rest; Parser_next
\* returns its Option<Result> as item.
RECURSIVE Parser_next(_)
RECURSIVE parse_block_loop(_, _)
RECURSIVE parse_expr_list_loop(_, _, _)

\* the match on self.next() of every parse function: None is UnexpectedEOF
next_or_eof(s) ==
    LET r == Parser_next(s)
    IN  [res |-> IF r.item.some THEN r.item.v ELSE Err(UnexpectedEOF),
         rest |-> r.rest]

\* expect_close that takes the end of the input for the closing token
expect_close_lenient(s, until, val) ==
    IF s = <<>>
    THEN [res |-> Ok(val), rest |-> s]
    ELSE [res |-> IF ~Head(s).ok THEN Err(ScanError(Head(s).e))
                  ELSE IF Head(s).v = until THEN Ok(val)
                  ELSE Err(Unexpected(Head(s).v)),
          rest |-> Tail(s)]

\* the match on self.scanner.next() that expects the token `until`
expect_close(s, until, val) ==
    IF s = <<>>
    THEN [res |-> Err(UnexpectedEOF), rest |-> s]
    ELSE [res |-> IF ~Head(s).ok THEN Err(ScanError(Head(s).e))
                  ELSE IF Head(s).v = until THEN Ok(val)
                  ELSE Err(Unexpected(Head(s).v)),
          rest |-> Tail(s)]

parse_paren_expr(s) ==
    LET inner == next_or_eof(s)
    IN  IF ~inner.res.ok THEN inner
        ELSE expect_close(inner.rest, Tok("CloseParen"), ParenExpr(inner.res.v))

parse_block_loop(s, body) ==
    IF s = <<>> THEN [res |-> Err(UnexpectedEOF), rest |-> s]
    ELSE IF ~Head(s).ok THEN [res |-> Err(ScanError(Head(s).e)), rest |-> s]
    ELSE IF Head(s).v = Tok("CloseCurly")
    THEN [res |-> Ok(Block(body)), rest |-> Tail(s)]
    ELSE LET r == next_or_eof(s)
         IN  IF r.res.ok THEN parse_block_loop(r.rest, Append(body, r.res.v))
             ELSE r

parse_block(s) == parse_block_loop(s, <<>>)

parse_expr_list_loop(s, until, expressions) ==
    LET r == next_or_eof(s)
    IN  IF ~r.res.ok THEN r
        ELSE IF r.rest # <<>> /\ Head(r.rest) = Ok(Tok("Comma"))
        THEN parse_expr_list_loop(Tail(r.rest), until,
                                  Append(expressions, r.res.v))
        ELSE expect_close(r.rest, until, Append(expressions, r.res.v))

\* parse_expr_list without the test for an empty list
parse_expr_list_no_empty(s, until) == parse_expr_list_loop(s, until, <<>>)

parse_expr_list(s, until) ==
    IF s # <<>> /\ Head(s) = Ok(until)
    THEN [res |-> Ok(<<>>), rest |-> Tail(s)]
    ELSE parse_expr_list_loop(s, until, <<>>)

parse_identifier(s, name) ==
    IF s # <<>> /\ Head(s) = Ok(Tok("OpenParen"))
    THEN LET r == parse_expr_list(Tail(s), Tok("CloseParen"))
         IN  IF r.res.ok
             THEN [res |-> Ok(FunctionCall(name, r.res.v)), rest |-> r.rest]
             ELSE r
    ELSE [res |-> Ok(Variable(name)), rest |-> s]

parse_if(s) ==
    LET condition == next_or_eof(s)
        body == next_or_eof(condition.rest)
        else_branch == next_or_eof(Tail(body.rest))
    IN  IF ~condition.res.ok THEN condition
        ELSE IF ~body.res.ok THEN body
        ELSE IF body.rest # <<>> /\ Head(body.rest) = Ok(Tok("Else"))
        THEN IF ~else_branch.res.ok THEN else_branch
             ELSE [res |-> Ok(IfExpr(condition.res.v, body.res.v,
                                     Some(else_branch.res.v))),
                   rest |-> else_branch.rest]
        ELSE [res |-> Ok(IfExpr(condition.res.v, body.res.v, None)),
              rest |-> body.rest]

parse_while(s) ==
    LET condition == next_or_eof(s)
        body == next_or_eof(condition.rest)
    IN  IF ~condition.res.ok THEN condition
        ELSE IF ~body.res.ok THEN body
        ELSE [res |-> Ok(WhileLoop(condition.res.v, body.res.v)),
              rest |-> body.rest]

\* apply_precedence that never rotates
apply_precedence_never(lhs, op, rhs) == BinaryExpr(lhs, op, rhs)

\* apply_precedence that also rotates on equal ranks
apply_precedence_le(lhs, op, rhs) ==
    IF rhs.kind = "BinaryExpr" /\ precendence(rhs.op) <= precendence(op)
    THEN BinaryExpr(BinaryExpr(lhs, op, rhs.left), rhs.op, rhs.right)
    ELSE BinaryExpr(lhs, op, rhs)

\* one rotation when the operator of rhs has a lower rank than op
apply_precedence(lhs, op, rhs) ==
    IF rhs.kind = "BinaryExpr" /\ precendence(rhs.op) < precendence(op)
    THEN BinaryExpr(BinaryExpr(lhs, op, rhs.left), rhs.op, rhs.right)
    ELSE BinaryExpr(lhs, op, rhs)

\* an assignment test that does not look at the next token
is_assignment_any_token(lhs, next) == lhs.kind = "Variable"

\* the test of the assignment rule: `next == Token::Eq` and lhs a Variable
is_assignment(lhs, next) == next = Tok("Eq") /\ lhs.kind = "Variable"

\* parse_unit that leaves a token no unit starts with in the scanner
parse_unit_stuck(token, s) ==
    CASE token.t = "Nil" -> [res |-> Ok(NilLiteral), rest |-> s]
      [] token.t = "Boolean" -> [res |-> Ok(BooleanLiteral(token.b)), rest |-> s]
      [] token.t = "Number" -> [res |-> Ok(NumberLiteral(token.n)), rest |-> s]
      [] token.t = "String" -> [res |-> Ok(StrLiteral(token.s)), rest |-> s]
      [] token.t = "OpenParen" -> parse_paren_expr(s)
      [] token.t = "OpenCurly" -> parse_block(s)
      [] token.t = "Identifier" -> parse_identifier(s, token.s)
      [] token.t = "If" -> parse_if(s)
      [] token.t = "While" -> parse_while(s)
      [] OTHER -> [res |-> Err(Unexpected(token)), rest |-> <<Ok(token)>> \o s]

\* the unit that starts with `token`
parse_unit(token, s) ==
    CASE token.t = "Nil" -> [res |-> Ok(NilLiteral), rest |-> s]
      [] token.t = "Boolean" -> [res |-> Ok(BooleanLiteral(token.b)), rest |-> s]
      [] token.t = "Number" -> [res |-> Ok(NumberLiteral(token.n)), rest |-> s]
      [] token.t = "String" -> [res |-> Ok(StrLiteral(token.s)), rest |-> s]
      [] token.t = "OpenParen" -> parse_paren_expr(s)
      [] token.t = "OpenCurly" -> parse_block(s)
      [] token.t = "Identifier" -> parse_identifier(s, token.s)
      [] token.t = "If" -> parse_if(s)
      [] token.t = "While" -> parse_while(s)
      [] OTHER -> [res |-> Err(Unexpected(token)), rest |-> s]

\* Parser::next
Parser_next(s) ==
    IF s = <<>> THEN [item |-> None, rest |-> s]
    ELSE IF ~Head(s).ok
    THEN [item |-> Some(Err(ScanError(Head(s).e))), rest |-> Tail(s)]
    ELSE
    LET expr_res == parse_unit(Head(s).v, Tail(s))
        lhs == expr_res.res.v
        s2 == expr_res.rest
        next == Head(s2).v
        rhs == next_or_eof(Tail(s2))
    IN  IF ~expr_res.res.ok THEN [item |-> Some(expr_res.res), rest |-> s2]
        ELSE IF s2 = <<>> \/ ~Head(s2).ok
        THEN [item |-> Some(Ok(lhs)), rest |-> s2]
        ELSE IF to_binary_op(next).some
        THEN [item |-> Some(IF rhs.res.ok
                            THEN Ok(apply_precedence(lhs, to_binary_op(next).v,
                                                     rhs.res.v))
                            ELSE rhs.res),
              rest |-> rhs.rest]
        ELSE IF is_assignment(lhs, next)
        THEN [item |-> Some(IF rhs.res.ok
                            THEN Ok(Assignment(lhs.name, rhs.res.v))
                            ELSE rhs.res),
              rest |-> rhs.rest]
        ELSE [item |-> Some(Ok(lhs)), rest |-> s2]

\* the operator tokens, those to_binary_op maps to an operator
OpTokens ==
    {Tok("DoubleEq"), Tok("Lt"), Tok("LtEq"), Tok("Gt"), Tok("GtEq"),
     Tok("Plus"), Tok("Minus"), Tok("Times"), Tok("Divide")}

\* the scan of `1 o1 2 o2 3 ...`: the number literals 1, 2, 3, ... with the
\* operator tokens ops between them
OpChain(ops) ==
    [i \in 1..(2 * Len(ops) + 1) |->
        IF i % 2 = 1 THEN Ok(TokNumber(Num((i + 1) \div 2))) ELSE Ok(ops[i \div 2])]

OpChains == {OpChain(ops) : ops \in UNION {[1..n -> OpTokens] : n \in 1..MaxOps}}

\* the scan of `1 + 2 - 3 * 4 / 5` (test_binary_expr)
TestBinaryExpr ==
    OpChain(<<Tok("Plus"), Tok("Minus"), Tok("Times"), Tok("Divide")>>)

\* the scan of `x = y = z` (test_assignment)
TestAssignment ==
    <<Ok(TokIdentifier("x")), Ok(Tok("Eq")), Ok(TokIdentifier("y")),
      Ok(Tok("Eq")), Ok(TokIdentifier("z"))>>

\* the scan of `(x) = 1`
ParenAssign ==
    <<Ok(Tok("OpenParen")), Ok(TokIdentifier("x")), Ok(Tok("CloseParen")),
      Ok(Tok("Eq")), Ok(TokNumber(Num(1)))>>

\* the items of the short token strings: x 1 = ( ) + and a scan error
ScanItems ==
    {Ok(TokIdentifier("x")), Ok(TokNumber(Num(1))), Ok(Tok("Eq")),
     Ok(Tok("OpenParen")), Ok(Tok("CloseParen")), Ok(Tok("Plus")),
     Err(UnexpectedChar("$"))}

ShortScans == UNION {[1..n -> ScanItems] : n \in 0..MaxToks}

\* longest token string over the tokens of the constructs
MaxCons == 4

\* the items of the construct strings: x 1 ( ) { } if else while and a comma
ConsItems ==
    {Ok(TokIdentifier("x")), Ok(TokNumber(Num(1))), Ok(Tok("OpenParen")),
     Ok(Tok("CloseParen")), Ok(Tok("OpenCurly")), Ok(Tok("CloseCurly")),
     Ok(Tok("If")), Ok(Tok("Else")), Ok(Tok("While")), Ok(Tok("Comma"))}

ConsScans == UNION {[1..n -> ConsItems] : n \in 0..MaxCons}

\* the spellings of the operators and the operator each one stands for
OpSymbols ==
    {<<"+">>, <<"-">>, <<"*">>, <<"/">>, <<"%">>, <<"=", "=">>, <<"<">>,
     <<"<", "=">>, <<">">>, <<">", "=">>}

SymbolOp(sym) ==
    CASE sym = <<"+">> -> "Add"
      [] sym = <<"-">> -> "Sub"
      [] sym = <<"*">> -> "Mul"
      [] sym = <<"/">> -> "Div"
      [] sym = <<"%">> -> "Mod"
      [] sym = <<"=", "=">> -> "Eq"
      [] sym = <<"<">> -> "Lt"
      [] sym = <<"<", "=">> -> "LtEq"
      [] sym = <<">">> -> "Gt"
      [] sym = <<">", "=">> -> "GtEq"

\* the text `1 sym 2` (test_binary_op) and its scan
BinaryOpSource(sym) == <<"1", " ">> \o sym \o <<" ", "2">>
BinaryOpScans == {ScanAll(BinaryOpSource(sym)) : sym \in OpSymbols}

\* the scan of `x(1, x)`
TestCallTwo ==
    <<Ok(TokIdentifier("x")), Ok(Tok("OpenParen")), Ok(TokNumber(Num(1))),
      Ok(Tok("Comma")), Ok(TokIdentifier("x")), Ok(Tok("CloseParen"))>>

\* the scan of `x(1,)`
TestCallTrailingComma ==
    <<Ok(TokIdentifier("x")), Ok(Tok("OpenParen")), Ok(TokNumber(Num(1))),
      Ok(Tok("Comma")), Ok(Tok("CloseParen"))>>

\* the scan of `{ x $ } 1`: a scan error inside a block
TestBlockScanError ==
    <<Ok(Tok("OpenCurly")), Ok(TokIdentifier("x")), Err(UnexpectedChar("$")),
      Ok(Tok("CloseCurly")), Ok(TokNumber(Num(1)))>>

NamedScans ==
    {TestBinaryExpr, TestAssignment, ParenAssign, TestCallTwo,
     TestCallTrailingComma, TestBlockScanError}

ParseInputs ==
    OpChains \cup ShortScans \cup ConsScans \cup BinaryOpScans \cup NamedScans

\* A parser over each input: cur.toks is the scan it was made on, cur.rest its
\* scanner and cur.items what its next() has yielded so far.
ParseInit ==
    /\ frames = ScopeTree_new
    /\ out = ""
    /\ kont = <<>>
    /\ hist = <<>>
    /\ pc = "parse"
    /\ \E toks \in ParseInputs :
          cur = [toks |-> toks, rest |-> toks, items |-> <<>>]

\* one call of Parser::next by the consumer, until it returns None
ParserPull ==
    /\ pc = "parse"
    /\ LET r == Parser_next(cur.rest)
       IN  IF r.item.some
           THEN /\ cur' = [cur EXCEPT !.rest = r.rest,
                                      !.items = Append(@, r.item.v)]
                /\ pc' = pc
           ELSE /\ cur' = cur
                /\ pc' = "parsed"
    /\ UNCHANGED <<frames, out, kont, hist>>

ParseNext == ParserPull

ParseSpec == ParseInit /\ [][ParseNext]_vars

\* longest token string of the parsers that are run to their end under fairness
MaxFairToks == 2

FairParseInputs ==
    UNION {[1..n -> ScanItems \cup ConsItems] : n \in 0..MaxFairToks}

FairParseInit ==
    /\ frames = ScopeTree_new
    /\ out = ""
    /\ kont = <<>>
    /\ hist = <<>>
    /\ pc = "parse"
    /\ \E toks \in FairParseInputs :
          cur = [toks |-> toks, rest |-> toks, items |-> <<>>]

\* the consumer goes on pulling until None
FairParseSpec == FairParseInit /\ [][ParseNext]_vars /\ WF_vars(ParserPull)

\* toks is the scan of a chain `1 o1 2 o2 ...` of n operators
IsChain(toks, n) ==
    /\ Len(toks) = 2 * n + 1
    /\ \A i \in 1..Len(toks) :
          /\ toks[i].ok
          /\ IF i % 2 = 1 THEN toks[i].v = TokNumber(Num((i + 1) \div 2))
             ELSE to_binary_op(toks[i].v).some

\* the operator of the i-th operator token of a chain, and its rank
ChainOp(toks, i) == to_binary_op(toks[2 * i].v).v
Rank(toks, i) == precendence(ChainOp(toks, i))
Lit(k) == NumberLiteral(Num(k))

\* C17: `1 OP1 2 OP2 3` parses to the one item (1 OP1 2) OP2 3 when
\* precedence(OP1) > precedence(OP2) and to 1 OP1 (2 OP2 3) otherwise.
C17_TwoOperators ==
    (pc = "parsed" /\ IsChain(cur.toks, 2)) =>
       cur.items =
          <<Ok(IF Rank(cur.toks, 1) > Rank(cur.toks, 2)
               THEN BinaryExpr(BinaryExpr(Lit(1), ChainOp(cur.toks, 1), Lit(2)),
                               ChainOp(cur.toks, 2), Lit(3))
               ELSE BinaryExpr(Lit(1), ChainOp(cur.toks, 1),
                               BinaryExpr(Lit(2), ChainOp(cur.toks, 2), Lit(3))))>>

\* `1 * 2 + 3` has been parsed to Add(Mul(1, 2), 3)
C17_Witness ==
    /\ pc = "parsed"
    /\ cur.toks = OpChain(<<Tok("Times"), Tok("Plus")>>)
    /\ cur.items = <<Ok(BinaryExpr(BinaryExpr(Lit(1), "Mul", Lit(2)), "Add", Lit(3)))>>

\* no BinaryExpr of e has a direct BinaryExpr operand of a lower rank
RECURSIVE NoLowerOperand(_)
NoLowerOperand(e) ==
    e.kind = "BinaryExpr" =>
       /\ e.left.kind = "BinaryExpr" => precendence(e.left.op) >= precendence(e.op)
       /\ e.right.kind = "BinaryExpr" => precendence(e.right.op) >= precendence(e.op)
       /\ NoLowerOperand(e.left)
       /\ NoLowerOperand(e.right)

\* C18: the tree parsed from a chain of three or more operators has no
\* BinaryExpr with a direct BinaryExpr operand of a strictly lower rank;
\* `1 * 2 + 3 == 4` is ((1 * 2) + 3) == 4.
C18_ChainsReconciled ==
    (pc = "parsed" /\ \E n \in 3..(MaxOps + 1) : IsChain(cur.toks, n)) =>
       /\ \A i \in 1..Len(cur.items) :
             cur.items[i].ok => NoLowerOperand(cur.items[i].v)
       /\ cur.toks = OpChain(<<Tok("Times"), Tok("Plus"), Tok("DoubleEq")>>) =>
             cur.items =
                <<Ok(BinaryExpr(BinaryExpr(BinaryExpr(Lit(1), "Mul", Lit(2)),
                                           "Add", Lit(3)),
                                "Eq", Lit(4)))>>

\* the chain of the literals from i on, nested to the right
RECURSIVE RightNested(_, _)
RightNested(toks, i) ==
    IF 2 * i > Len(toks) THEN Lit(i)
    ELSE BinaryExpr(Lit(i), ChainOp(toks, i), RightNested(toks, i + 1))

\* C19: a chain whose ranks never decrease from left to right parses to the
\* one item nested to the right; so operators of equal rank associate to the
\* right and `1 + 2 - 3 * 4 / 5` is Add(1, Sub(2, Mul(3, Div(4, 5)))).
C19_RightNested ==
    /\ (pc = "parsed"
        /\ \E n \in 1..(MaxOps + 1) :
              /\ IsChain(cur.toks, n)
              /\ \A i \in 1..(n - 1) : Rank(cur.toks, i) <= Rank(cur.toks, i + 1)) =>
          cur.items = <<Ok(RightNested(cur.toks, 1))>>
    /\ (pc = "parsed" /\ cur.toks = TestBinaryExpr) =>
          cur.items =
             <<Ok(BinaryExpr(Lit(1), "Add",
                     BinaryExpr(Lit(2), "Sub",
                        BinaryExpr(Lit(3), "Mul",
                           BinaryExpr(Lit(4), "Div", Lit(5))))))>>
    /\ (pc = "parsed" /\ cur.toks = OpChain(<<Tok("Minus"), Tok("Minus")>>)) =>
          cur.items =
             <<Ok(BinaryExpr(Lit(1), "Sub", BinaryExpr(Lit(2), "Sub", Lit(3))))>>

\* `1 + 2 - 3 * 4 / 5` has been parsed to one item
C19_Witness ==
    /\ pc = "parsed"
    /\ cur.toks = TestBinaryExpr
    /\ Len(cur.items) = 1
    /\ cur.items[1].ok
    /\ cur.items[1].v.right.right.right = BinaryExpr(Lit(4), "Div", Lit(5))

\* the number of Assignment nodes of an expression
RECURSIVE Assignments(_)
RECURSIVE AssignmentsIn(_)
AssignmentsIn(es) ==
    IF es = <<>> THEN 0 ELSE Assignments(Head(es)) + AssignmentsIn(Tail(es))

Assignments(e) ==
    CASE e.kind = "Assignment" -> 1 + Assignments(e.right)
      [] e.kind = "ParenExpr" -> Assignments(e.expr)
      [] e.kind = "BinaryExpr" -> Assignments(e.left) + Assignments(e.right)
      [] e.kind = "FunctionCall" -> AssignmentsIn(e.args)
      [] e.kind = "Block" -> AssignmentsIn(e.exprs)
      [] e.kind = "WhileLoop" -> Assignments(e.cond) + Assignments(e.body)
      [] e.kind = "IfExpr" ->
            Assignments(e.cond) + Assignments(e.body)
            + (IF e.else_branch.some THEN Assignments(e.else_branch.v) ELSE 0)
      [] OTHER -> 0

\* the Assignment nodes of the items yielded so far
RECURSIVE AssignmentsYielded(_)
AssignmentsYielded(items) ==
    IF items = <<>> THEN 0
    ELSE (IF Head(items).ok THEN Assignments(Head(items).v) ELSE 0)
         + AssignmentsYielded(Tail(items))

\* the positions of toks where an identifier is followed by `=`
VariableThenEq(toks) ==
    {i \in 1..(Len(toks) - 1) :
        /\ toks[i].ok
        /\ toks[i].v.t = "Identifier"
        /\ toks[i + 1] = Ok(Tok("Eq"))}

\* C20: an Assignment node is made exactly for a bare Variable followed by
\* `=`: the items hold at most one Assignment per identifier followed by `=`,
\* and when no item is an error one for each `=` of the input; an item is an
\* Assignment only if the input starts with its name and `=`; `x = y = z` is
\* the one item Assignment(x, Assignment(y, z)); `(x) = 1` yields (x) as an
\* item of its own, then an error for `=`, and no Assignment.
C20_AssignmentRule ==
    /\ AssignmentsYielded(cur.items) <= Cardinality(VariableThenEq(cur.toks))
    /\ (pc = "parsed" /\ \A i \in 1..Len(cur.items) : cur.items[i].ok) =>
          /\ AssignmentsYielded(cur.items) = Cardinality(VariableThenEq(cur.toks))
          /\ \A i \in 1..Len(cur.toks) :
                cur.toks[i] = Ok(Tok("Eq")) => (i - 1) \in VariableThenEq(cur.toks)
    /\ (cur.items # <<>> /\ cur.items[1].ok /\ cur.items[1].v.kind = "Assignment") =>
          /\ 1 \in VariableThenEq(cur.toks)
          /\ cur.toks[1].v.s = cur.items[1].v.left
    /\ (cur.items # <<>> /\ 1 \in VariableThenEq(cur.toks)) =>
          \/ ~cur.items[1].ok
          \/ /\ cur.items[1].v.kind = "Assignment"
             /\ cur.items[1].v.left = cur.toks[1].v.s
    /\ (pc = "parsed" /\ cur.toks = TestAssignment) =>
          cur.items = <<Ok(Assignment("x", Assignment("y", Variable("z"))))>>
    /\ (pc = "parsed" /\ cur.toks = ParenAssign) =>
          cur.items = <<Ok(ParenExpr(Variable("x"))), Err(Unexpected(Tok("Eq"))),
                        Ok(Lit(1))>>

\* `(x) = 1` has been parsed to three items, the first of them (x)
C20_Witness ==
    /\ pc = "parsed"
    /\ cur.toks = ParenAssign
    /\ Len(cur.items) = 3
    /\ cur.items[1] = Ok(ParenExpr(Variable("x")))

\* ---- the scanner on bounded inputs ----

\* longest input the scanner is given, in characters
MaxChars == 3

ScanChars == {" ", "=", "<", ">", "+", "-", "1", ".", "\"", "\\", "a", "$"}

ShortInputs == UNION {[1..n -> ScanChars] : n \in 0..MaxChars}

\* `(,) = == < <= > >= +-*/` (test_punctuation)
TestPunctuation ==
    <<"(", ",", ")", " ", "=", " ", "=", "=", " ", "<", " ", "<", "=", " ",
      ">", " ", ">", "=", " ", "+", "-", "*", "/">>

\* `($)` (test_unexpected_char)
TestUnexpectedChar == <<"(", "$", ")">>

\* `0 -0 -1.2 +2.3 999 1.` (test_number)
TestNumber ==
    <<"0", " ", "-", "0", " ", "-", "1", ".", "2", " ", "+", "2", ".", "3",
      " ", "9", "9", "9", " ", "1", ".">>

\* ` "" "Foo bar" "\"\\" ` (test_string)
TestString ==
    <<" ", "\"", "\"", " ", "\"", "F", "o", "o", " ", "b", "a", "r", "\"", " ",
      "\"", "\\", "\"", "\\", "\\", "\"", " ">>

\* `"ab\`: an unterminated string that ends in a backslash
OpenStringBackslash == <<"\"", "a", "b", "\\">>

\* `1-1- 1`: a sign before a digit and a sign before a space
SignsInput == <<"1", "-", "1", "-", " ", "1">>

NamedInputs ==
    {TestPunctuation, TestUnexpectedChar, TestNumber, TestString,
     OpenStringBackslash, SignsInput}

ScanInputs == ShortInputs \cup NamedInputs

\* A scanner over each input: cur.input is the text it was made on, cur.rest
\* its input and cur.items what its next() has yielded so far.
ScanInit ==
    /\ frames = ScopeTree_new
    /\ out = ""
    /\ kont = <<>>
    /\ hist = <<>>
    /\ pc = "scan"
    /\ \E input \in ScanInputs :
          cur = [input |-> input, rest |-> input, items |-> <<>>]

\* one call of Scanner::next by the consumer, until it returns None
ScannerPull ==
    /\ pc = "scan"
    /\ LET r == Scanner_next(cur.rest)
       IN  IF r.item.some
           THEN /\ cur' = [cur EXCEPT !.rest = r.rest,
                                      !.items = Append(@, r.item.v)]
                /\ pc' = pc
           ELSE /\ cur' = cur
                /\ pc' = "scanned"
    /\ UNCHANGED <<frames, out, kont, hist>>

ScanNext == ScannerPull

ScanSpec == ScanInit /\ [][ScanNext]_vars

\* longest input of the scanners that are run to their end under fairness
MaxFairChars == 2

FairScanInputs ==
    UNION {[1..n -> ScanChars] : n \in 0..MaxFairChars} \cup NamedInputs

FairScanInit ==
    /\ frames = ScopeTree_new
    /\ out = ""
    /\ kont = <<>>
    /\ hist = <<>>
    /\ pc = "scan"
    /\ \E input \in FairScanInputs :
          cur = [input |-> input, rest |-> input, items |-> <<>>]

\* the consumer goes on pulling until None
FairScanSpec == FairScanInit /\ [][ScanNext]_vars /\ WF_vars(ScannerPull)

\* what a pull has to read: the input after the leading whitespace
Unread == skip_space(cur.rest)

\* the item a pull has just yielded
Yielded == cur.items'[Len(cur.items')]

\* a pull that yields an item
Pulls == pc = "scan" /\ Len(cur.items') = Len(cur.items) + 1

\* C22: on `=`, `<` or `>` followed by `=` a pull consumes both characters
\* and yields DoubleEq, LtEq or GtEq; followed by anything else or nothing it
\* consumes the one character, yields Eq, Lt or Gt and leaves what follows.
C22_TwoCharOperators ==
    [][(pc = "scan" /\ Unread # <<>> /\ Head(Unread) \in {"=", "<", ">"}) =>
         LET c == Head(Unread)
             two == Len(Unread) >= 2 /\ Unread[2] = "="
         IN  /\ Pulls
             /\ Yielded =
                   Ok(Tok(CASE c = "=" -> (IF two THEN "DoubleEq" ELSE "Eq")
                            [] c = "<" -> (IF two THEN "LtEq" ELSE "Lt")
                            [] c = ">" -> (IF two THEN "GtEq" ELSE "Gt")))
             /\ cur.rest' = SubSeq(Unread, IF two THEN 3 ELSE 2, Len(Unread))]_vars

\* `<==` has been scanned to LtEq and Eq
C22_Witness ==
    /\ pc = "scanned"
    /\ cur.input = <<"<", "=", "=">>
    /\ cur.items = <<Ok(Tok("LtEq")), Ok(Tok("Eq"))>>

\* C23: on `+` or `-` directly followed by a digit a pull yields one Number
\* token for the whole run of digits, with that sign; followed by anything
\* else or nothing it yields Plus or Minus and consumes the one character.
C23_SignedNumbers ==
    /\ [][(pc = "scan" /\ Unread # <<>> /\ Head(Unread) \in {"+", "-"}) =>
            IF Len(Unread) >= 2 /\ is_digit(Unread[2])
            THEN /\ Pulls
                 /\ Yielded.ok
                 /\ Yielded.v.t = "Number"
                 /\ Head(Unread) = "-" => Yielded.v.n[1] <= 0
                 /\ Head(Unread) = "+" => Yielded.v.n[1] >= 0
                 /\ Len(cur.rest') <= Len(Unread) - 2
                 /\ cur.rest' # <<>> => ~is_digit(Head(cur.rest'))
            ELSE /\ Pulls
                 /\ Yielded = Ok(Tok(IF Head(Unread) = "+" THEN "Plus" ELSE "Minus"))
                 /\ cur.rest' = Tail(Unread)]_vars
    /\ []((pc = "scanned" /\ cur.input = TestNumber) =>
            cur.items = <<Ok(TokNumber(Num(0))), Ok(TokNumber(Num(0))),
                          Ok(TokNumber(<<-6, 5>>)), Ok(TokNumber(<<23, 10>>)),
                          Ok(TokNumber(Num(999))), Ok(TokNumber(Num(1)))>>)
    /\ []((pc = "scanned" /\ cur.input = SignsInput) =>
            cur.items = <<Ok(TokNumber(Num(1))), Ok(TokNumber(Num(-1))),
                          Ok(Tok("Minus")), Ok(TokNumber(Num(1)))>>)

\* `-11` has been scanned to one Number token
C23_Witness ==
    /\ pc = "scanned"
    /\ cur.input = <<"-", "1", "1">>
    /\ cur.items = <<Ok(TokNumber(Num(-11)))>>

\* C24: a pull that starts on `"` and comes to the end of the input without
\* yielding a String token yields Err(IncompleteString), also when the last
\* character of the input is a backslash.
C24_IncompleteString ==
    [][(Pulls /\ Unread # <<>> /\ Head(Unread) = "\"" /\ cur.rest' = <<>>
        /\ ~Yielded.ok) => Yielded = Err(IncompleteString)]_vars

\* C25: a pull on input that holds a character other than whitespace yields
\* an item and leaves a shorter input; UnexpectedChar(c) consumes up to and
\* with c; None is returned only when nothing but whitespace is left; and
\* every scanner comes to None.
C25_ScannerAdvances ==
    /\ [][pc = "scan" =>
            IF Unread # <<>>
            THEN /\ Pulls
                 /\ Len(cur.rest') < Len(Unread)
                 /\ (~Yielded.ok /\ Yielded.e.kind = "UnexpectedChar") =>
                       /\ Yielded.e.c = Head(Unread)
                       /\ cur.rest' = Tail(Unread)
            ELSE pc' = "scanned" /\ cur' = cur]_vars
    /\ []((pc = "scanned" /\ cur.input = TestUnexpectedChar) =>
            cur.items = <<Ok(Tok("OpenParen")), Err(UnexpectedChar("$")),
                          Ok(Tok("CloseParen"))>>)
    /\ [](Len(cur.items) <= Len(cur.input))
    /\ <>(pc = "scanned")

\* `($)` has been scanned to its three items
C25_Witness ==
    /\ pc = "scanned"
    /\ cur.input = TestUnexpectedChar
    /\ Len(cur.items) = 3
    /\ cur.items[2] = Err(UnexpectedChar("$"))

\* C21: every operator, Mod included, can be written in source text: for
\* each spelling `+ - * / % == < <= > >=` the scan of `1 sym 2` parses to the
\* one item BinaryExpr(1, op, 2), and these are all the operators.
C21_EveryOperatorInSource ==
    /\ BinaryOps = {SymbolOp(sym) : sym \in OpSymbols}
    /\ \A sym \in OpSymbols :
          (pc = "parsed" /\ cur.toks = ScanAll(BinaryOpSource(sym))) =>
             cur.items = <<Ok(BinaryExpr(Lit(1), SymbolOp(sym), Lit(2)))>>

\* everything a Parser on toks yields before None
RECURSIVE ParseAll(_)
ParseAll(toks) ==
    LET r == Parser_next(toks)
    IN  IF r.item.some THEN <<r.item.v>> \o ParseAll(r.rest) ELSE <<>>

\* token strings that end in the middle of a construct
EofCases ==
    LET x == Ok(TokIdentifier("x"))
        one == Ok(TokNumber(Num(1)))
        t(name) == Ok(Tok(name))
    IN  {<<t("OpenCurly")>>, <<t("OpenCurly"), one>>,
         <<t("OpenParen")>>, <<t("OpenParen"), one>>,
         <<t("If")>>, <<t("If"), one>>, <<t("If"), one, one, t("Else")>>,
         <<t("While")>>, <<t("While"), one>>,
         <<one, t("Plus")>>, <<x, t("Eq")>>,
         <<x, t("OpenParen")>>, <<x, t("OpenParen"), one>>,
         <<x, t("OpenParen"), one, t("Comma")>>,
         <<t("OpenCurly"), t("OpenParen"), x>>,
         <<t("If"), one, t("OpenCurly"), x>>}

\* items are Ok items, or Ok items and a last Err(UnexpectedEOF)
OkThenEof(items) ==
    \A i \in 1..Len(items) :
       \/ items[i].ok
       \/ i = Len(items) /\ items[i] = Err(UnexpectedEOF)

\* C26: a token string without scan errors that ends in the middle of a
\* construct parses to Err(UnexpectedEOF), not to Ok and not to Unexpected:
\* each of the listed cases is the one item Err(UnexpectedEOF), and no prefix
\* of a string that parses without error yields another error.
C26_UnexpectedEOF ==
    /\ (pc = "parsed" /\ cur.toks \in EofCases) =>
          cur.items = <<Err(UnexpectedEOF)>>
    /\ (pc = "parsed" /\ \A i \in 1..Len(cur.items) : cur.items[i].ok) =>
          \A n \in 0..Len(cur.toks) : OkThenEof(ParseAll(SubSeq(cur.toks, 1, n)))

\* `if 1 1 else` has been parsed to Err(UnexpectedEOF)
C26_Witness ==
    /\ pc = "parsed"
    /\ cur.toks = <<Ok(Tok("If")), Ok(TokNumber(Num(1))), Ok(TokNumber(Num(1))),
                    Ok(Tok("Else"))>>
    /\ cur.items = <<Err(UnexpectedEOF)>>

\* C27: `x()` is a FunctionCall without arguments; `x(1)` and `x(1, x)` are
\* FunctionCalls with the arguments in source order; `x(1,)` is
\* Err(Unexpected(CloseParen)); and after the argument 1 a token that is
\* not `,`, `)` or an operator is Err(Unexpected(that token)).
C27_ArgumentLists ==
    LET x == Ok(TokIdentifier("x"))
        one == Ok(TokNumber(Num(1)))
        open == Ok(Tok("OpenParen"))
        close == Ok(Tok("CloseParen"))
    IN  /\ (pc = "parsed" /\ cur.toks = <<x, open, close>>) =>
              cur.items = <<Ok(FunctionCall("x", <<>>))>>
        /\ (pc = "parsed" /\ cur.toks = <<x, open, one, close>>) =>
              cur.items = <<Ok(FunctionCall("x", <<Lit(1)>>))>>
        /\ (pc = "parsed" /\ cur.toks = TestCallTwo) =>
              cur.items = <<Ok(FunctionCall("x", <<Lit(1), Variable("x")>>))>>
        /\ (pc = "parsed" /\ cur.toks = TestCallTrailingComma) =>
              cur.items = <<Err(Unexpected(Tok("CloseParen")))>>
        /\ (/\ cur.items # <<>>
            /\ Len(cur.toks) >= 4
            /\ SubSeq(cur.toks, 1, 3) = <<x, open, one>>
            /\ cur.toks[4].ok
            /\ cur.toks[4].v \notin {Tok("Comma"), Tok("CloseParen")}
            /\ ~to_binary_op(cur.toks[4].v).some) =>
              cur.items[1] = Err(Unexpected(cur.toks[4].v))

\* `x(1,)` has been parsed to Err(Unexpected(CloseParen))
C27_Witness ==
    /\ pc = "parsed"
    /\ cur.toks = TestCallTrailingComma
    /\ cur.items = <<Err(Unexpected(Tok("CloseParen")))>>

C29_NoShadowing ==
    \A i, j \in 1..Len(frames) :
       i # j => DOMAIN frames[i] \cap DOMAIN frames[j] = {}

\* inside the inner block of `{ y = 1 { x = 2 y = 2 } }`, run on a program
\* that binds x: both assignments went to the enclosing frames
C29_Witness ==
    /\ Len(frames) = 3
    /\ frames[1] = Scope_insert(Scope_new, "x", Number(Num(2)))
    /\ frames[2] = Scope_insert(Scope_new, "y", Number(Num(2)))
    /\ frames[3] = Scope_new

\* ---- the interactive shell (bin/main.rs, run_interactive) ----

\* the number of lines the user types
MaxLines == 3

\* `x=(1 + 1) while false 1`
LineAssignWhile ==
    <<"x", "=", "(", "1", " ", "+", " ", "1", ")", " ", "w", "h", "i", "l", "e",
      " ", "f", "a", "l", "s", "e", " ", "1">>

\* `if x{println(x)}`
LineIfPrint ==
    <<"i", "f", " ", "x", "{", "p", "r", "i", "n", "t", "l", "n", "(", "x", ")",
      "}">>

\* `x=1 w y=2`: the second expression fails to evaluate
LineEvalError == <<"x", "=", "1", " ", "w", " ", "y", "=", "2">>

\* `y=1 $`: a scan error after an expression
LineScanError == <<"y", "=", "1", " ", "$">>

\* `y=1 (`: the input ends in a construct after an expression
LineOpenParen == <<"y", "=", "1", " ", "(">>

\* `2)`
LineCloseParen == <<"2", ")">>

LineOpenCurly == <<"{">>
LineCloseCurly == <<"}">>

\* `"`: opens a string, or closes the one the input is in
LineQuote == <<"\"">>

\* the lines rl.readline may return
Lines ==
    {LineAssignWhile, LineIfPrint, LineEvalError, LineScanError, LineOpenParen,
     LineCloseParen, LineOpenCurly, LineCloseCurly, LineQuote}

\* the `for expr_res in parser` loop on the items of a parser: the
\* expressions pushed, and how the loop ended
RECURSIVE parse_input(_, _)
parse_input(toks, exprs) ==
    LET r == Parser_next(toks)
    IN  IF ~r.item.some THEN [end |-> "done", exprs |-> exprs]
        ELSE IF r.item.v.ok THEN parse_input(r.rest, Append(exprs, r.item.v.v))
        ELSE IF r.item.v.e \in {UnexpectedEOF, ScanError(IncompleteString)}
        THEN [end |-> "needs_more_input", exprs |-> exprs]
        ELSE [end |-> "error", exprs |-> exprs]

\* The locals of run_interactive are the one entry at the bottom of kont:
\* line, exprs, the number i of expressions handed to eval, and for the log
\* the program as it was when the first line of the input was read.  hist
\* logs every input the shell is done with.  What the shell itself prints
\* (results and error messages) is not part of out.
Shell == kont[1]

RECURSIVE LinesLogged(_)
LinesLogged(h) == IF h = <<>> THEN 0 ELSE Head(h).lines + LinesLogged(Tail(h))

LinesRead == LinesLogged(hist) + (IF kont = <<>> THEN 0 ELSE Shell.lines)

ShellLog(end) ==
    [input |-> Shell.line, lines |-> Shell.lines, end |-> end,
     exprs |-> Shell.exprs, i |-> Shell.i, pre |-> Shell.pre,
     pre_out |-> Shell.pre_out, post |-> frames, post_out |-> out]

ShellInit ==
    /\ frames = ScopeTree_new
    /\ out = ""
    /\ kont = <<>>
    /\ hist = <<>>
    /\ pc = "readline"
    /\ cur = NoCur

\* rl.readline("> ") returns the line l
ShellReadLine(l) ==
    /\ pc = "readline"
    /\ LinesRead < MaxLines
    /\ kont' = <<[kind |-> "run_interactive", line |-> l, lines |-> 1,
                  exprs |-> <<>>, i |-> 0, pre |-> frames, pre_out |-> out,
                  depth |-> Len(frames)]>>
    /\ pc' = "parse_input"
    /\ UNCHANGED <<frames, out, cur, hist>>

\* rl.readline fails: break 'outer
ShellQuit ==
    /\ pc \in {"readline", "more_input"}
    /\ pc' = "exit"
    /\ kont' = <<>>
    /\ UNCHANGED <<frames, out, cur, hist>>

\* ShellParse that goes on to evaluate what was parsed before an error
ShellParse_partial ==
    /\ pc = "parse_input"
    /\ LET r == parse_input(ScanAll(Shell.line), <<>>)
       IN  /\ kont' = <<[Shell EXCEPT !.exprs = r.exprs, !.i = 0]>>
           /\ pc' = IF r.end = "needs_more_input" THEN "more_input" ELSE "eval_exprs"
           /\ hist' = hist
    /\ UNCHANGED <<frames, out, cur>>

\* a new Parser on line, and the loop over its items
ShellParse ==
    /\ pc = "parse_input"
    /\ LET r == parse_input(ScanAll(Shell.line), <<>>)
       IN  CASE r.end = "error" ->
                  /\ hist' = Append(hist, ShellLog("dropped"))
                  /\ kont' = <<>>
                  /\ pc' = "readline"
             [] r.end = "needs_more_input" ->
                  /\ kont' = <<[Shell EXCEPT !.exprs = <<>>, !.i = 0]>>
                  /\ pc' = "more_input"
                  /\ hist' = hist
             [] r.end = "done" ->
                  /\ kont' = <<[Shell EXCEPT !.exprs = r.exprs, !.i = 0]>>
                  /\ pc' = "eval_exprs"
                  /\ hist' = hist
    /\ UNCHANGED <<frames, out, cur>>

\* line.push('\n'), and rl.readline(">> ") returns the line l
ShellMoreInput(l) ==
    /\ pc = "more_input"
    /\ LinesRead < MaxLines
    /\ kont' = <<[Shell EXCEPT !.line = @ \o <<"\n">> \o l, !.lines = @ + 1]>>
    /\ pc' = "parse_input"
    /\ UNCHANGED <<frames, out, cur, hist>>

\* the `for expr in exprs` loop hands the next expression to eval
ShellEval ==
    /\ pc = "eval_exprs"
    /\ Shell.i < Len(Shell.exprs)
    /\ kont' = <<[Shell EXCEPT !.i = @ + 1]>>
    /\ pc' = "eval"
    /\ cur' = Shell.exprs[Shell.i + 1]
    /\ UNCHANGED <<frames, out, hist>>

\* expr.eval(program) has returned: on Err, continue 'outer
ShellExprRet ==
    /\ Returning("run_interactive")
    /\ IF cur.ok
       THEN /\ pc' = "eval_exprs"
            /\ UNCHANGED <<kont, hist>>
       ELSE /\ hist' = Append(hist, ShellLog("eval_error"))
            /\ kont' = <<>>
            /\ pc' = "readline"
    /\ cur' = NoCur
    /\ UNCHANGED <<frames, out>>

\* the loop over exprs is over: continue 'outer
ShellDone ==
    /\ pc = "eval_exprs"
    /\ Shell.i = Len(Shell.exprs)
    /\ hist' = Append(hist, ShellLog("evaluated"))
    /\ kont' = <<>>
    /\ pc' = "readline"
    /\ UNCHANGED <<frames, out, cur>>

ShellNext ==
    \/ \E l \in Lines : ShellReadLine(l)
    \/ ShellQuit
    \/ ShellParse
    \/ \E l \in Lines : ShellMoreInput(l)
    \/ ShellEval
    \/ ShellExprRet
    \/ ShellDone
    \/ EvalLiteral
    \/ EvalVariable
    \/ EvalParenExpr
    \/ ParenExprRet
    \/ EvalBlock
    \/ BlockRet
    \/ EvalAssignment
    \/ AssignmentRet
    \/ EvalFunctionCall
    \/ FunctionCallRet
    \/ EvalBinaryExpr
    \/ BinaryExprRet
    \/ EvalIfExpr
    \/ IfExprRet
    \/ EvalWhileLoop
    \/ WhileLoopRet

ShellSpec == ShellInit /\ [][ShellNext]_vars

\* what a parser on the text `line` yields
InputItems(line) == ParseAll(ScanAll(line))

AllOk(items) == \A i \in 1..Len(items) : items[i].ok

\* the first error of items that hold one
FirstError(items) ==
    items[CHOOSE i \in 1..Len(items) :
             ~items[i].ok /\ \A j \in 1..(i - 1) : items[j].ok].e

AsksForMore(e) == e \in {UnexpectedEOF, ScanError(IncompleteString)}

\* C28: the shell evaluates only an input that parsed without error as a
\* whole, its expressions in order, and stops at the first evaluation error
\* with the earlier effects kept; while it parses or waits for a further line
\* nothing of the input has been evaluated; on UnexpectedEOF or
\* IncompleteString it appends a newline and the next line and parses the
\* whole input again; on another parse error it drops the input unevaluated.
C28_ParseBeforeEval ==
    /\ [](pc \in {"eval_exprs", "eval", "ret"} =>
            LET items == InputItems(Shell.line)
            IN  /\ AllOk(items)
                /\ Shell.exprs = [i \in 1..Len(items) |-> items[i].v])
    /\ [](pc \in {"parse_input", "more_input"} =>
            /\ frames = Shell.pre
            /\ out = Shell.pre_out
            /\ Shell.i = 0)
    /\ [](pc = "more_input" =>
            /\ ~AllOk(InputItems(Shell.line))
            /\ AsksForMore(FirstError(InputItems(Shell.line))))
    /\ [][(pc = "more_input" /\ pc' = "parse_input") =>
            /\ \E l \in Lines : kont'[1].line = Shell.line \o <<"\n">> \o l
            /\ kont'[1].exprs = <<>>
            /\ frames' = frames
            /\ out' = out]_vars
    /\ [][(pc = "eval_exprs" /\ pc' = "eval") =>
            /\ cur' = Shell.exprs[Shell.i + 1]
            /\ kont'[1].i = Shell.i + 1]_vars
    /\ [][(Returning("run_interactive") /\ ~cur.ok) =>
            (pc' = "readline" /\ frames' = frames /\ out' = out)]_vars
    /\ [](\A h \in Calls :
            LET items == InputItems(h.input)
            IN  /\ h.end \in {"dropped", "evaluated", "eval_error"}
                /\ h.end = "dropped" =>
                      /\ ~AllOk(items)
                      /\ ~AsksForMore(FirstError(items))
                      /\ h.i = 0
                      /\ h.post = h.pre
                      /\ h.post_out = h.pre_out
                /\ h.end = "evaluated" => (AllOk(items) /\ h.i = Len(items))
                /\ h.end = "eval_error" => (AllOk(items) /\ h.i \in 1..Len(items))
                /\ h.input = LineEvalError =>
                      /\ h.end = "eval_error"
                      /\ h.i = 2
                      /\ var(h.post, "x") = Some(Number(Num(1)))
                      /\ var(h.post, "y") = var(h.pre, "y")
                /\ h.input = LineScanError => h.end = "dropped")

\* `y=1 (` and then `2)` have been read, parsed as one input and evaluated
C28_Witness ==
    \E h \in Calls :
       /\ h.input = LineOpenParen \o <<"\n">> \o LineCloseParen
       /\ h.lines = 2
       /\ h.end = "evaluated"
       /\ h.i = 2
       /\ ~Bound(h.pre, "y")
       /\ var(h.post, "y") = Some(Number(Num(1)))

====
